---- MODULE Spec2Model ----
(***************************************************************************)
(* VoiceTagEditor: the extraction / conversion core of src/App.tsx.        *)
(*                                                                         *)
(* Text is modelled as a sequence of one-character strings, so that the    *)
(* splitting, trimming and number normalisation of the source are computed *)
(* character by character.  The empty text <<>> stands for both "" and an  *)
(* absent (undefined) optional field: the source only tests truthiness.    *)
(*                                                                         *)
(* The component state is the latest value of each useState cell: Preact   *)
(* runs a functional updater at dispatch time on the latest value, and     *)
(* re-renders in a microtask, so a synchronous handler always sees the     *)
(* latest state.  An async handler keeps the values of the render it was   *)
(* created in across its awaits; those captured values are modelled as     *)
(* locals of the handler.  One action is one run of a handler or of an     *)
(* async function between two awaits.                                      *)
(***************************************************************************)
EXTENDS Integers, Sequences, FiniteSets, TLC

\* ------------------------------------------------------------------ bounds
NumBatches     == 2   \* runs of processNewFiles that may be in progress at once
MaxBatch       == 2   \* audio paths in one submission
MaxImages      == 2   \* image files in one drop or folder pick
MaxSubmissions == 2   \* drops and picks in one run
MaxNumberLen   == 3   \* characters of the short texts given to normalizeNumberString
MaxOutputFiles == 1   \* files in the output folders below which exports are started
MaxChipEdits   == 3   \* edits of the chip and number inputs in one behaviour
MaxScanned     == 3   \* image files a scan of folders returns
MaxEvents      == 3   \* progress events delivered to a listener in one batch
MaxSorted      == 3   \* tracks of a list that is sorted
MaxEdits       == 1   \* edits of the album fields and artwork in one run

\* ------------------------------------------------------------- text helpers
DigitChars == <<"0", "1", "2", "3", "4", "5", "6", "7", "8", "9">>

IsDigit(c) == \E i \in 1..10 : DigitChars[i] = c

IsSpace(c) == c = " "

RECURSIVE SplitAcc(_, _, _, _)
SplitAcc(s, seps, cur, acc) ==
  IF s = <<>> THEN Append(acc, cur)
  ELSE IF Head(s) \in seps THEN SplitAcc(Tail(s), seps, <<>>, Append(acc, cur))
  ELSE SplitAcc(Tail(s), seps, Append(cur, Head(s)), acc)

\* String.prototype.split on a one-character separator class
Split(s, seps) == SplitAcc(s, seps, <<>>, <<>>)

RECURSIVE TrimStart(_)
TrimStart(s) == IF s # <<>> /\ IsSpace(Head(s)) THEN TrimStart(Tail(s)) ELSE s

RECURSIVE TrimEnd(_)
TrimEnd(s) ==
  IF s # <<>> /\ IsSpace(s[Len(s)]) THEN TrimEnd(SubSeq(s, 1, Len(s) - 1)) ELSE s

\* String.prototype.trim
Trim(s) == TrimEnd(TrimStart(s))

Includes(list, x) == \E i \in 1..Len(list) : list[i] = x

RECURSIVE StripLeadingZeros(_)
StripLeadingZeros(digits) ==
  IF Len(digits) > 1 /\ Head(digits) = "0" THEN StripLeadingZeros(Tail(digits)) ELSE digits

RECURSIVE StripTrailingZeros(_)
StripTrailingZeros(digits) ==
  IF digits # <<>> /\ digits[Len(digits)] = "0"
  THEN StripTrailingZeros(SubSeq(digits, 1, Len(digits) - 1)) ELSE digits

\* parseInt(digits, 10) of a non-empty digit string.  A JavaScript number is
\* written here as its decimal digits without leading zeros; that is the
\* number parseInt returns whenever the value is a double, which covers
\* every value below 2^53 and the powers of ten up to 10^22.
ParseInt(digits) == StripLeadingZeros(digits)

RECURSIVE LeadingDigits(_)
LeadingDigits(text) ==
  IF text # <<>> /\ IsDigit(Head(text)) THEN <<Head(text)>> \o LeadingDigits(Tail(text))
  ELSE <<>>

\* parseInt(text) || 0: the number a text starts with, 0 when it starts with none
ParseIntOrZero(text) ==
  LET digits == LeadingDigits(text) IN IF digits = <<>> THEN <<"0">> ELSE ParseInt(digits)

DigitIndex(c) == CHOOSE i \in 1..Len(DigitChars) : DigitChars[i] = c

\* a < b on numbers written without leading zeros
NumberLess(a, b) ==
  \/ Len(a) < Len(b)
  \/ /\ Len(a) = Len(b)
     /\ \E i \in 1..Len(a) : /\ DigitIndex(a[i]) < DigitIndex(b[i])
                              /\ \A j \in 1..(i - 1) : a[j] = b[j]

RECURSIVE DecimalText(_)
DecimalText(n) ==
  IF n < 10 THEN <<DigitChars[n + 1]>>
  ELSE Append(DecimalText(n \div 10), DigitChars[(n % 10) + 1])

\* values from 10^21 on are written with an exponent
MaxPlainDigits == 21

\* Number.prototype.toString: "12", and "1e+21", "1.5e+21" from 10^21 on
NumToString(n) ==
  IF Len(n) <= MaxPlainDigits THEN n
  ELSE LET fraction == StripTrailingZeros(Tail(n)) IN
       <<Head(n)>> \o (IF fraction = <<>> THEN <<>> ELSE <<".">> \o fraction)
                  \o <<"e", "+">> \o DecimalText(Len(n) - 1)

\* trimAndDedup: trim every item, drop empties and repeats, keep order
RECURSIVE trimAndDedupAcc(_, _)
trimAndDedupAcc(items, result) ==
  IF items = <<>> THEN result
  ELSE LET item == Trim(Head(items)) IN
       IF item = <<>> \/ Includes(result, item)
       THEN trimAndDedupAcc(Tail(items), result)
       ELSE trimAndDedupAcc(Tail(items), Append(result, item))

trimAndDedup(items) == trimAndDedupAcc(items, <<>>)

\* normalizeNumberString: "02" -> "2", no digit -> ""
normalizeNumberString(value) ==
  LET digitsOnly == SelectSeq(value, IsDigit) IN
  IF digitsOnly = <<>> THEN <<>> ELSE NumToString(ParseInt(digitsOnly))

LastIndexOf(s, c) ==
  IF \E i \in 1..Len(s) : s[i] = c
  THEN (CHOOSE i \in 1..Len(s) : s[i] = c /\ \A j \in (i + 1)..Len(s) : s[j] # c) - 1
  ELSE -1

\* getFileNameWithoutExtension
getFileNameWithoutExtension(filePath) ==
  LET parts    == Split(filePath, {"/"})
      last     == parts[Len(parts)]
      fileName == IF last # <<>> THEN last ELSE filePath
      lastDotIndex == LastIndexOf(fileName, ".")
  IN IF lastDotIndex > 0 THEN SubSeq(fileName, 1, lastDotIndex) ELSE fileName

\* a || b on texts
OrElse(a, b) == IF a # <<>> THEN a ELSE b

\* ----------------------------------------------------------- the outside
\* audio files the user can drop or pick
PathA == <<"d", "/", "a", ".", "w">>
PathB == <<"d", "/", "b", ".", "w">>
PathC == <<"c", ".", "w">>
AudioPaths == {PathA, PathB, PathC}

\* image files the user can drop or select
ImageX == <<"x", ".", "p">>
ImageCover == <<"C", "o", "v", "e", "r", ".", "p">>
ImagePaths == {ImageX, ImageCover}

\* more image files of a scanned folder
ImageAlbum == <<"a", "l", "b", "u", "m", "1", ".", "p">>
ImageBoth == <<"A", "L", "B", "U", "M", "c", "o", "v", "e", "r", ".", "p">>
ImageInCoverFolder == <<"c", "o", "v", "e", "r", "/", "y", ".", "p">>
ArtworkCandidates == {ImageX, ImageCover, ImageAlbum, ImageBoth, ImageInCoverFolder}

\* what a probe of one audio file can report (AudioMetadata, all optional)
EmptyMetadata ==
  [title |-> <<>>, artist |-> <<>>, album_artist |-> <<>>, album |-> <<>>,
   track_number |-> <<>>, disk_number |-> <<>>, date |-> <<>>, genre |-> <<>>,
   album_art |-> <<>>, tags |-> <<>>]

\* the tags of the three audio files
MetaA ==
  [EmptyMetadata EXCEPT !.title = <<"s">>, !.artist = <<"u", ";", " ", "v", ";", "u">>,
     !.album = <<"A">>, !.album_artist = <<"P">>, !.date = <<"1", "9">>,
     !.track_number = <<"0", "1">>, !.disk_number = <<"1">>,
     !.genre = <<"r", ";", " ", "j">>, !.tags = << <<"k">> >>, !.album_art = <<"i">>]

MetaB ==
  [EmptyMetadata EXCEPT !.album = <<"B">>, !.track_number = <<"1">>,
     !.genre = <<"j", "/", "k">>, !.tags = << <<"k">>, <<"m">> >>]

MetaC ==
  [EmptyMetadata EXCEPT !.title = <<"t">>, !.date = <<"2", "0">>,
     !.track_number = <<"2">>, !.disk_number = <<"0", "2">>, !.album_art = <<"o">>]

FileMetadata(path) ==
  CASE path = PathA -> MetaA
    [] path = PathB -> MetaB
    [] OTHER -> MetaC

ErrorText == <<"e">>

\* AudioFileResult: file_path, metadata?, error?
MetadataResult(path, md) ==
  [file_path |-> path, hasMetadata |-> TRUE, metadata |-> md, error |-> <<>>]

ErrorResult(path) ==
  [file_path |-> path, hasMetadata |-> FALSE, metadata |-> EmptyMetadata,
   error |-> ErrorText]

\* backend: an item of a process_audio_files call no worker has finished yet
\* rank: the position of the item in the order of completion, 0 while pending
PendingItem == [done |-> FALSE, rank |-> 0, result |-> ErrorResult(<<>>)]

\* ------------------------------------------------------- component state
NoPath == <<>>

\* albumArtwork: null, a data: URL of embedded bytes, or convertFileSrc(path)
NoArtwork == [kind |-> "null", of |-> <<>>]
DataUrl(base64) == [kind |-> "data", of |-> base64]
convertFileSrc(path) == [kind |-> "asset", of |-> path]

DefaultDate == <<"2", "0", "0", "0", "-", "0", "1", "-", "0", "1">>

InitialAlbumData ==
  [albumArtwork |-> NoArtwork, albumArtworkPath |-> NoPath,
   albumArtworkCachePath |-> NoPath, albumTitle |-> <<>>, albumArtist |-> <<>>,
   releaseDate |-> DefaultDate, tags |-> <<>>, currentTagInput |-> <<>>]

NoProgress == [status |-> "null"]

InitialExportSettings ==
  [outputPath |-> <<>>, overwriteMode |-> "rename", format |-> "MP3", quality |-> "high"]

NoOutputSettings ==
  [output_path |-> <<>>, format |-> "MP3", quality |-> <<>>, overwrite_mode |-> "rename"]

\* locals of one run of handleActualExport
IdleExport ==
  [pc |-> "idle", tracks |-> <<>>, convertOutputSettings |-> NoOutputSettings,
   currentTracksToConvert |-> <<>>, allConvertedFiles |-> <<>>, retryCount |-> 0,
   failed_files |-> <<>>]

\* locals of one run of processNewFiles
IdleBatch ==
  [pc |-> "idle", serial |-> 0, newFilePaths |-> <<>>,
   hasExternalImageCandidate |-> FALSE, results |-> <<>>, i |-> 0,
   newTracks |-> <<>>, hasAlbumArt |-> FALSE, hasAlbumInfo |-> FALSE,
   allTags |-> <<>>, duplicateEntries |-> <<>>]

Batches == 1..NumBatches

VARIABLES
  albumData,           \* useState<AlbumData>
  isProcessing,        \* useState(false)
  processingProgress,  \* useState<ProgressEvent | null>
  completedCount,      \* useState(0)
  tracks,              \* useState<Track[]>
  batch,               \* the runs of processNewFiles in progress
  extraction,          \* backend: the items of each process_audio_files call
  submissions,         \* drops and picks made so far
  edits,               \* album edits made so far
  duplicateFilesDialog, \* the "all files already loaded" dialog is open
  convertProgress,     \* useState<ConvertProgress | null>
  showExportDialog,    \* useState(false)
  exportSettings,      \* useState<ExportSettings>
  export,              \* the run of handleActualExport in progress
  conversion,          \* backend: the jobs of the convert_audio_files call
  listeners,           \* convert-progress listeners registered
  call,                \* a call apart from the batches: a function applied to an input
                       \* drawn at the start, or a handler waiting at its dialog
  outputFiles          \* backend: the files in the output folders

uiVars     == <<albumData, isProcessing, processingProgress, completedCount, tracks>>
batchVars  == <<batch, extraction, submissions, edits, duplicateFilesDialog>>
exportVars == <<convertProgress, showExportDialog, exportSettings, export, conversion,
                listeners, call, outputFiles>>
vars == <<uiVars, batchVars, exportVars>>

\* -------------------------------------------------- processNewFiles: loop
GenreSeparators == {";", ",", "/"}

RECURSIVE PushMissing(_, _)
\* for (const t of items) if (!allTags.includes(t)) allTags.push(t)
PushMissing(allTags, items) ==
  IF items = <<>> THEN allTags
  ELSE PushMissing(IF Includes(allTags, Head(items)) THEN allTags
                   ELSE Append(allTags, Head(items)), Tail(items))

RECURSIVE TrimEach(_)
TrimEach(items) ==
  IF items = <<>> THEN <<>> ELSE <<Trim(Head(items))>> \o TrimEach(Tail(items))

NonEmpty(t) == t # <<>>

genreParts(genre) ==
  IF Trim(genre) # <<>>
  THEN SelectSeq(TrimEach(Split(genre, GenreSeparators)), NonEmpty)
  ELSE <<>>

\* albumTitle: metadata.album || prev.albumTitle, and so on
WithAlbumInfo(prev, metadata) ==
  [prev EXCEPT !.albumTitle  = OrElse(metadata.album, @),
               !.albumArtist = OrElse(metadata.album_artist, @),
               !.releaseDate = OrElse(metadata.date, @)]

\* generateTrackId: a fresh id per track of a run
generateTrackId(serial, k) == serial * (MaxBatch + 1) + k

newTrack(id, result) ==
  [id |-> id,
   diskNumber  |-> normalizeNumberString(OrElse(result.metadata.disk_number, <<"1">>)),
   trackNumber |-> normalizeNumberString(OrElse(result.metadata.track_number, <<"1">>)),
   title   |-> OrElse(result.metadata.title, getFileNameWithoutExtension(result.file_path)),
   artists |-> IF result.metadata.artist # <<>>
               THEN trimAndDedup(Split(result.metadata.artist, {";"})) ELSE <<>>,
   currentArtistInput |-> <<>>,
   filePath |-> result.file_path]

\* the album-info branch of one iteration
SeedsAlbumInfo(st, metadata) ==
  /\ ~st.hasAlbumInfo
  /\ metadata.album # <<>> \/ metadata.album_artist # <<>> \/ metadata.date # <<>>

\* the tags one result adds to the collected tags
CollectTags(allTags, metadata) ==
  PushMissing(PushMissing(allTags, metadata.tags), genreParts(metadata.genre))

\* one iteration of the result loop from the album-info branch to the push
IterationTail(result, st) ==
  LET metadata == result.metadata
      seeds    == SeedsAlbumInfo(st, metadata)
  IN [st EXCEPT
        !.album = IF seeds THEN WithAlbumInfo(@, metadata) ELSE @,
        !.hasAlbumInfo = IF seeds THEN TRUE ELSE @,
        !.allTags = CollectTags(@, metadata),
        !.newTracks = Append(@, newTrack(generateTrackId(st.serial, Len(@) + 1), result))]

\* the embedded artwork of this result is taken: the loop awaits the cache
\* TakesAlbumArt without the test of the external image candidate
TakesAlbumArtAlways(hasExternalImageCandidate, st, result) ==
  ~st.hasAlbumArt /\ result.metadata.album_art # <<>>

TakesAlbumArt(hasExternalImageCandidate, st, result) ==
  ~hasExternalImageCandidate /\ ~st.hasAlbumArt /\ result.metadata.album_art # <<>>

\* if (result.error) continue; if (result.metadata) { ... }
SkipsResult(result) == result.error # <<>> \/ ~result.hasMetadata

RECURSIVE ResultLoopAborting(_, _, _, _)
\* ResultLoop with "break" in place of "continue" on a result carrying an error
ResultLoopAborting(results, i, hasExternalImageCandidate, st) ==
  IF i > Len(results) THEN [st EXCEPT !.stopAt = 0]
  ELSE IF SkipsResult(results[i]) THEN [st EXCEPT !.stopAt = 0]
  ELSE IF TakesAlbumArt(hasExternalImageCandidate, st, results[i])
       THEN [st EXCEPT !.stopAt = i, !.hasAlbumArt = TRUE]
  ELSE ResultLoopAborting(results, i + 1, hasExternalImageCandidate,
                          IterationTail(results[i], st))

RECURSIVE ResultLoop(_, _, _, _)
\* runs the loop from results[i] to its end or to the next await; stopAt is
\* the index of the result whose artwork is being cached, 0 at the end
ResultLoop(results, i, hasExternalImageCandidate, st) ==
  IF i > Len(results) THEN [st EXCEPT !.stopAt = 0]
  ELSE IF SkipsResult(results[i])
       THEN ResultLoop(results, i + 1, hasExternalImageCandidate, st)
  ELSE IF TakesAlbumArt(hasExternalImageCandidate, st, results[i])
       THEN [st EXCEPT !.stopAt = i, !.hasAlbumArt = TRUE]
  ELSE ResultLoop(results, i + 1, hasExternalImageCandidate,
                  IterationTail(results[i], st))

\* -------------------------------------------------- the duplicate-key gate
comboKey(t) ==
  (IF t.diskNumber # <<>> THEN NumToString(ParseInt(t.diskNumber)) ELSE <<>>)
  \o <<"-">> \o
  (IF t.trackNumber # <<>> THEN NumToString(ParseInt(t.trackNumber)) ELSE <<>>)

HasBothNumbers(t) == t.diskNumber # <<>> /\ t.trackNumber # <<>>

RECURSIVE DuplicateScan(_, _, _, _)
DuplicateScan(existingCombos, seenNewCombos, newTracks, entries) ==
  IF newTracks = <<>> THEN entries
  ELSE LET track == Head(newTracks)
           key   == comboKey(track)
       IN IF ~HasBothNumbers(track)
          THEN DuplicateScan(existingCombos, seenNewCombos, Tail(newTracks), entries)
          ELSE IF key \in existingCombos
          THEN DuplicateScan(existingCombos, seenNewCombos, Tail(newTracks),
                             Append(entries, [id |-> track.id, against |-> "existing"]))
          ELSE IF key \in seenNewCombos
          THEN DuplicateScan(existingCombos, seenNewCombos, Tail(newTracks),
                             Append(entries, [id |-> track.id, against |-> "new"]))
          ELSE DuplicateScan(existingCombos, seenNewCombos \cup {key}, Tail(newTracks),
                             entries)

\* the tracks processNewFiles reads at the gate: processAudioFiles is memoised
\* with no dependencies, so it calls the processNewFiles of the first render,
\* whose tracks is the initial state of the track list
closureTracks == <<>>

duplicateEntries(newTracks) ==
  LET existing == SelectSeq(closureTracks, HasBothNumbers)
  IN DuplicateScan({comboKey(existing[k]) : k \in 1..Len(existing)}, {}, newTracks, <<>>)

\* MergeTags without the filter on the tags already present
MergeTagsUnfiltered(prev, allTags) ==
  IF allTags # <<>> THEN [prev EXCEPT !.tags = @ \o allTags] ELSE prev

\* merge of the collected tags into the album tags
MergeTags(prev, allTags) ==
  LET NotThere(tag) == ~Includes(prev.tags, tag)
      newTags == SelectSeq(allTags, NotThere)
  IN IF allTags # <<>> /\ newTags # <<>> THEN [prev EXCEPT !.tags = @ \o newTags] ELSE prev

\* ------------------------------------------------------------------- Init
NoCall == [pc |-> "none", input |-> <<>>, once |-> <<>>, twice |-> <<>>]

\* the component after construction
Constructed ==
  /\ albumData = InitialAlbumData
  /\ isProcessing = FALSE
  /\ processingProgress = NoProgress
  /\ completedCount = 0
  /\ tracks = <<>>
  /\ batch = [p \in Batches |-> IdleBatch]
  /\ extraction = [p \in Batches |-> <<>>]
  /\ submissions = 0
  /\ edits = 0
  /\ duplicateFilesDialog = FALSE
  /\ convertProgress = NoProgress
  /\ showExportDialog = FALSE
  /\ exportSettings = InitialExportSettings
  /\ export = IdleExport
  /\ conversion = <<>>
  /\ listeners = 0
  /\ outputFiles = {}

Init == Constructed /\ call = NoCall

\* --------------------------------------------------------- submissions
RECURSIVE SeqsUpTo(_, _)
SeqsUpTo(S, n) ==
  IF n = 0 THEN {<<>>}
  ELSE LET shorter == SeqsUpTo(S, n - 1)
       IN shorter \cup {Append(q, x) : q \in shorter, x \in S}

\* non-empty lists of at most MaxBatch audio paths
PathLists == SeqsUpTo(AudioPaths, MaxBatch) \ {<<>>}

existingPaths(currentTracks) ==
  {currentTracks[k].filePath : k \in 1..Len(currentTracks)} \ {NoPath}

\* newFilePathsOf without the filter
newFilePathsUnfiltered(filePaths, currentTracks) == filePaths

\* filePaths.filter(path => !existingPaths.has(path))
newFilePathsOf(filePaths, currentTracks) ==
  LET IsNew(path) == path \notin existingPaths(currentTracks)
  IN SelectSeq(filePaths, IsNew)

\* a run of processNewFiles at its first await
StartedBatch(serial, newFilePaths, hasExternalImageCandidate) ==
  [IdleBatch EXCEPT !.pc = "check_ffmpeg", !.serial = serial,
                    !.newFilePaths = newFilePaths,
                    !.hasExternalImageCandidate = hasExternalImageCandidate]

\* processAudioFiles, with the start of processNewFiles up to its first await
processAudioFiles(filePaths, preferExternalArtwork) ==
  LET newFilePaths == newFilePathsOf(filePaths, tracks) IN
  IF newFilePaths = <<>>
  THEN /\ duplicateFilesDialog' = TRUE
       /\ isProcessing' = FALSE
       /\ UNCHANGED <<batch, completedCount>>
  ELSE \E p \in Batches :
       /\ batch[p].pc = "idle"
       /\ \A q \in 1..(p - 1) : batch[q].pc # "idle"
       /\ isProcessing' = TRUE
       /\ completedCount' = 0
       /\ batch' = [batch EXCEPT ![p] =
                      StartedBatch(submissions + 1, newFilePaths, preferExternalArtwork)]
       /\ UNCHANGED duplicateFilesDialog

\* handlePickAudioFiles, after the file dialog returned paths
PickAudioFiles(paths) ==
  /\ submissions < MaxSubmissions
  /\ submissions' = submissions + 1
  /\ processAudioFiles(paths, FALSE)
  /\ UNCHANGED <<albumData, tracks, processingProgress, extraction, edits>>
  /\ UNCHANGED exportVars

\* ------------------------------------------------------ processNewFiles
\* Finally without setIsProcessing(false)
FinallyStillProcessing(p) ==
  /\ UNCHANGED isProcessing
  /\ processingProgress' = NoProgress
  /\ batch' = [batch EXCEPT ![p] = IdleBatch]

Finally(p) ==
  /\ isProcessing' = FALSE
  /\ processingProgress' = NoProgress
  /\ batch' = [batch EXCEPT ![p] = IdleBatch]

\* check_ffmpeg returned
CheckFfmpegReturn(p, ffmpegAvailable) ==
  /\ batch[p].pc = "check_ffmpeg"
  /\ IF ffmpegAvailable
     THEN /\ batch' = [batch EXCEPT ![p].pc = "process_audio_files"]
          /\ extraction' = [extraction EXCEPT ![p] =
                              [k \in 1..Len(batch[p].newFilePaths) |-> PendingItem]]
     ELSE /\ batch' = [batch EXCEPT ![p].pc = "ffmpeg_missing"]
          /\ UNCHANGED extraction
  /\ UNCHANGED <<albumData, isProcessing, processingProgress, completedCount, tracks,
                 submissions, edits, duplicateFilesDialog>>
  /\ UNCHANGED exportVars

\* FfmpegMissingClosed without the return: the run goes on to the extraction
FfmpegMissingIgnored(p) ==
  /\ batch[p].pc = "ffmpeg_missing"
  /\ batch' = [batch EXCEPT ![p].pc = "process_audio_files"]
  /\ extraction' = [extraction EXCEPT ![p] =
                      [k \in 1..Len(batch[p].newFilePaths) |-> PendingItem]]
  /\ UNCHANGED <<albumData, isProcessing, processingProgress, completedCount, tracks,
                 submissions, edits, duplicateFilesDialog>>
  /\ UNCHANGED exportVars

\* the FFmpeg warning was closed: return, finally
FfmpegMissingClosed(p) ==
  /\ batch[p].pc = "ffmpeg_missing"
  /\ Finally(p)
  /\ UNCHANGED <<albumData, completedCount, tracks, extraction, submissions, edits, duplicateFilesDialog>>
  /\ UNCHANGED exportVars

\* InvokeRejected submitting the batch again instead of reporting the error
InvokeRejectedRetrying(p) ==
  /\ batch[p].pc \in {"check_ffmpeg", "process_audio_files"}
  /\ batch' = [batch EXCEPT ![p].pc = "check_ffmpeg"]
  /\ extraction' = [extraction EXCEPT ![p] = <<>>]
  /\ UNCHANGED <<albumData, isProcessing, processingProgress, completedCount, tracks,
                 submissions, edits, duplicateFilesDialog>>
  /\ UNCHANGED exportVars

\* check_ffmpeg or process_audio_files rejected: catch, error dialog
InvokeRejected(p) ==
  /\ batch[p].pc \in {"check_ffmpeg", "process_audio_files"}
  /\ batch' = [batch EXCEPT ![p].pc = "error_dialog"]
  /\ extraction' = [extraction EXCEPT ![p] = <<>>]
  /\ UNCHANGED <<albumData, isProcessing, processingProgress, completedCount, tracks,
                 submissions, edits, duplicateFilesDialog>>
  /\ UNCHANGED exportVars

\* ErrorDialogClosed with a finally that also drops the loaded tracks
ErrorDialogClosedClearing(p) ==
  /\ batch[p].pc = "error_dialog"
  /\ Finally(p)
  /\ tracks' = <<>>
  /\ UNCHANGED <<albumData, completedCount, extraction, submissions, edits, duplicateFilesDialog>>
  /\ UNCHANGED exportVars

\* the error dialog was closed: finally
ErrorDialogClosed(p) ==
  /\ batch[p].pc = "error_dialog"
  /\ Finally(p)
  /\ UNCHANGED <<albumData, completedCount, tracks, extraction, submissions, edits, duplicateFilesDialog>>
  /\ UNCHANGED exportVars

\* ------------------------------------------- backend: process_audio_files
\* ProbeOutcomes with a result that carries neither metadata nor an error
ProbeOutcomesUntagged(path) ==
  {[ErrorResult(path) EXCEPT !.error = <<>>], MetadataResult(path, FileMetadata(path))}

\* the outcomes of probing one file
ProbeOutcomes(path) == {ErrorResult(path), MetadataResult(path, FileMetadata(path))}

Finished(items) == {k \in 1..Len(items) : items[k].done}

\* ListenerCount trusting the order of arrival
ListenerCountLatest(count, progress) ==
  IF progress.status \in {"completed", "error"} THEN progress.current ELSE count

\* the audio-processing-progress listener: the progress state after an event
ListenerCount(count, progress) ==
  IF progress.status \in {"completed", "error"} /\ progress.current > count
  THEN progress.current ELSE count

\* a worker finishes one item, in any order; the events of the item reach the
\* listener: "processing", then "completed" or "error" tagged with the number
\* of items finished so far
WorkerFinish(p, k, result) ==
  /\ batch[p].pc = "process_audio_files"
  /\ k \in 1..Len(extraction[p])
  /\ ~extraction[p][k].done
  /\ extraction' = [extraction EXCEPT ![p][k] =
                      [done |-> TRUE, rank |-> Cardinality(Finished(extraction[p])) + 1,
                       result |-> result]]
  /\ LET total == Len(extraction[p])
         processing == [current |-> k, total |-> total,
                        file_path |-> result.file_path, status |-> "processing"]
         finished == [current |-> Cardinality(Finished(extraction[p])) + 1,
                      total |-> total, file_path |-> result.file_path,
                      status |-> IF result.error # <<>> THEN "error" ELSE "completed"]
     IN /\ completedCount' = ListenerCount(ListenerCount(completedCount, processing), finished)
        /\ processingProgress' = finished
  /\ UNCHANGED <<albumData, isProcessing, tracks, batch, submissions, edits, duplicateFilesDialog>>
  /\ UNCHANGED exportVars

\* resultsOf collecting the results as the workers deliver them
resultsInCompletionOrder(items) ==
  [r \in 1..Len(items) |->
     IF \E k \in 1..Len(items) : items[k].rank = r
     THEN items[CHOOSE k \in 1..Len(items) : items[k].rank = r].result
     ELSE items[r].result]

\* the list process_audio_files returns: one result per path, in input order
resultsOf(items) == [k \in 1..Len(items) |-> items[k].result]

\* ------------------------------------ processNewFiles, after the result loop
\* CommitTracks leaving out the new tracks the gate reported
CommitUnreported(prev, newTracks) ==
  LET reported == {e.id : e \in {duplicateEntries(newTracks)[k] :
                                   k \in 1..Len(duplicateEntries(newTracks))}}
      Unreported(t) == t.id \notin reported
  IN prev \o SelectSeq(newTracks, Unreported)

CommitTracks(prev, newTracks) == prev \o newTracks

AfterLoop(p, results, st) ==
  LET entries == IF st.newTracks # <<>> THEN duplicateEntries(st.newTracks) ELSE <<>> IN
  IF entries # <<>>
  THEN /\ batch' = [batch EXCEPT ![p].pc = "confirm_duplicates",
                                 ![p].results = results,
                                 ![p].newTracks = st.newTracks,
                                 ![p].hasAlbumArt = st.hasAlbumArt,
                                 ![p].hasAlbumInfo = st.hasAlbumInfo,
                                 ![p].allTags = st.allTags,
                                 ![p].duplicateEntries = entries]
       /\ albumData' = st.album
       /\ UNCHANGED <<tracks, isProcessing, processingProgress>>
  ELSE /\ tracks' = IF st.newTracks # <<>> THEN CommitTracks(tracks, st.newTracks) ELSE tracks
       /\ albumData' = MergeTags(st.album, st.allTags)
       /\ Finally(p)

LoopState(p) ==
  [serial |-> batch[p].serial, newTracks |-> batch[p].newTracks,
   hasAlbumArt |-> batch[p].hasAlbumArt, hasAlbumInfo |-> batch[p].hasAlbumInfo,
   allTags |-> batch[p].allTags, album |-> albumData, stopAt |-> 0]

\* after the loop stopped at an await or ended
Continue(p, results, st) ==
  IF st.stopAt > 0
  THEN /\ batch' = [batch EXCEPT ![p].pc = "save_album_art_to_cache",
                                 ![p].results = results,
                                 ![p].i = st.stopAt,
                                 ![p].newTracks = st.newTracks,
                                 ![p].hasAlbumArt = st.hasAlbumArt,
                                 ![p].hasAlbumInfo = st.hasAlbumInfo,
                                 ![p].allTags = st.allTags]
       /\ albumData' = st.album
       /\ UNCHANGED <<tracks, isProcessing, processingProgress>>
  ELSE AfterLoop(p, results, st)

\* process_audio_files returned its results
ProcessAudioFilesReturn(p) ==
  /\ batch[p].pc = "process_audio_files"
  /\ Finished(extraction[p]) = 1..Len(extraction[p])
  /\ LET results == resultsOf(extraction[p])
     IN \E st \in {ResultLoop(results, 1, batch[p].hasExternalImageCandidate, LoopState(p))} :
          Continue(p, results, st)
  /\ extraction' = [extraction EXCEPT ![p] = <<>>]
  /\ UNCHANGED <<completedCount, submissions, edits, duplicateFilesDialog>>
  /\ UNCHANGED exportVars

UnknownAlbum  == <<"U", "n", "k", "n", "o", "w", "n", " ", "A", "l", "b", "u", "m">>
UnknownArtist == <<"U", "n", "k", "n", "o", "w", "n", " ", "A", "r", "t", "i", "s", "t">>

\* backend: the cache file of an album's artwork
CachePath(albumTitle, albumArtist) == <<"#">> \o albumTitle \o <<"#">> \o albumArtist

\* setAlbumData of the artwork branch, cache saved
WithCachedArt(prev, metadata, cachePath) ==
  [WithAlbumInfo(prev, metadata) EXCEPT
     !.albumArtwork = DataUrl(metadata.album_art),
     !.albumArtworkCachePath = cachePath]

\* setAlbumData of the artwork branch, cache failed
WithInlineArt(prev, metadata) ==
  [WithAlbumInfo(prev, metadata) EXCEPT !.albumArtwork = DataUrl(metadata.album_art)]

\* save_album_art_to_cache returned or rejected: the rest of the loop
SaveAlbumArtReturn(p, saved) ==
  /\ batch[p].pc = "save_album_art_to_cache"
  /\ LET result   == batch[p].results[batch[p].i]
         metadata == result.metadata
         cachePath == CachePath(OrElse(metadata.album, UnknownAlbum),
                                OrElse(metadata.album_artist, UnknownArtist))
         st1 == [LoopState(p) EXCEPT
                   !.album = IF saved THEN WithCachedArt(@, metadata, cachePath)
                             ELSE WithInlineArt(@, metadata),
                   !.hasAlbumInfo = TRUE]
     IN \E st \in {ResultLoop(batch[p].results, batch[p].i + 1,
                                batch[p].hasExternalImageCandidate,
                                IterationTail(result, st1))} :
          Continue(p, batch[p].results, st)
  /\ UNCHANGED <<completedCount, extraction, submissions, edits, duplicateFilesDialog>>
  /\ UNCHANGED exportVars

\* the duplicate dialog was answered
ConfirmDuplicates(p, proceed) ==
  /\ batch[p].pc = "confirm_duplicates"
  /\ IF proceed
     THEN /\ tracks' = CommitTracks(tracks, batch[p].newTracks)
          /\ albumData' = MergeTags(albumData, batch[p].allTags)
     ELSE UNCHANGED <<tracks, albumData>>
  /\ Finally(p)
  /\ UNCHANGED <<completedCount, extraction, submissions, edits, duplicateFilesDialog>>
  /\ UNCHANGED exportVars

\* ------------------------------------------------------ external artwork
toLowerCase(s) ==
  [k \in 1..Len(s) |->
     CASE s[k] = "A" -> "a" [] s[k] = "B" -> "b" [] s[k] = "C" -> "c" [] s[k] = "L" -> "l"
       [] s[k] = "M" -> "m" [] s[k] = "U" -> "u" [] OTHER -> s[k]]

\* String.prototype.includes
Contains(s, word) ==
  \E k \in 0..(Len(s) - Len(word)) : SubSeq(s, k + 1, k + Len(word)) = word

scoreCaseSensitive(path) ==
  LET name == getFileNameWithoutExtension(path) IN
  IF Contains(name, <<"c", "o", "v", "e", "r">>) THEN 0
  ELSE IF Contains(name, <<"a", "l", "b", "u", "m">>) THEN 1
  ELSE 2

score(path) ==
  LET name == toLowerCase(getFileNameWithoutExtension(path)) IN
  IF Contains(name, <<"c", "o", "v", "e", "r">>) THEN 0
  ELSE IF Contains(name, <<"a", "l", "b", "u", "m">>) THEN 1
  ELSE 2

\* [...paths].sort((a, b) => score(a) - score(b))[0], the sort being stable
bestImage(paths) ==
  LET k == CHOOSE k \in 1..Len(paths) :
             /\ \A j \in 1..Len(paths) : score(paths[k]) <= score(paths[j])
             /\ \A j \in 1..(k - 1) : score(paths[j]) > score(paths[k])
  IN paths[k]

WithExternalArtwork(prev, path) ==
  [prev EXCEPT !.albumArtwork = convertFileSrc(path),
               !.albumArtworkPath = path,
               !.albumArtworkCachePath = NoPath]

ImageLists == SeqsUpTo(ImagePaths, MaxImages)

\* audio paths first, then the best image becomes the artwork
LoadAudioAndImages(audioPaths, imagePaths) ==
  /\ audioPaths # <<>> \/ imagePaths # <<>>
  /\ submissions < MaxSubmissions
  /\ submissions' = submissions + 1
  /\ IF audioPaths # <<>>
     THEN processAudioFiles(audioPaths, imagePaths # <<>>)
     ELSE UNCHANGED <<isProcessing, completedCount, batch, duplicateFilesDialog>>
  /\ albumData' = IF imagePaths # <<>>
                  THEN WithExternalArtwork(albumData, bestImage(imagePaths))
                  ELSE albumData
  /\ UNCHANGED <<tracks, processingProgress, extraction, edits>>
  /\ UNCHANGED exportVars

\* the tauri://drag-drop listener, after the dropped folders were scanned
DragDrop(audioPaths, imagePaths) == LoadAudioAndImages(audioPaths, imagePaths)

\* processSelectedDirectories, after the picked folders were scanned
PickDirectories(audioPaths, imagePaths) == LoadAudioAndImages(audioPaths, imagePaths)

Edit ==
  /\ edits < MaxEdits
  /\ edits' = edits + 1
  /\ UNCHANGED <<isProcessing, processingProgress, completedCount, batch, extraction,
                 submissions, duplicateFilesDialog>>
  /\ UNCHANGED exportVars

\* handleSelectArtworkFile, after the file dialog returned a selection
SelectArtworkFile(artworkPath) ==
  /\ Edit
  /\ albumData' = WithExternalArtwork(albumData, artworkPath)
  /\ UNCHANGED tracks

ClearedArtwork(prev) ==
  [prev EXCEPT !.albumArtwork = NoArtwork, !.albumArtworkPath = NoPath,
               !.albumArtworkCachePath = NoPath]

\* handleClearAlbumArtwork
ClearAlbumArtwork ==
  /\ Edit
  /\ albumData' = ClearedArtwork(albumData)
  /\ UNCHANGED tracks

\* texts the user types into the album fields
TypedTexts == {<<>>, <<"Z">>}

\* handleAlbumFieldChange on the title, artist and release date inputs
AlbumFieldChange(field, value) ==
  /\ Edit
  /\ albumData' = [albumData EXCEPT ![field] = value]
  /\ UNCHANGED tracks

ClearedAlbumData == [InitialAlbumData EXCEPT !.releaseDate = <<>>]

\* handleClearAll, confirmed
ClearAll ==
  /\ tracks # <<>>
  /\ Edit
  /\ tracks' = <<>>
  /\ albumData' = ClearedAlbumData

\* ------------------------------------------------- tag and artist chips
\* an edit of the chip and number inputs, counted
ChipEdit ==
  /\ edits < MaxChipEdits
  /\ edits' = edits + 1
  /\ UNCHANGED <<isProcessing, processingProgress, completedCount, batch, extraction,
                 submissions, duplicateFilesDialog>>
  /\ UNCHANGED exportVars

HasComma(value) == \E i \in 1..Len(value) : value[i] = ","

\* parts.slice(0, -1) and parts[parts.length - 1] of value.split(",")
PartsBeforeLast(value) ==
  LET parts == Split(value, {","}) IN SubSeq(parts, 1, Len(parts) - 1)

LastPart(value) == LET parts == Split(value, {","}) IN parts[Len(parts)]

\* handleTagInput appending the new tags to the album tags as they are
handleTagInputAppending(album, value) ==
  IF HasComma(value)
  THEN LET newTags == trimAndDedup(PartsBeforeLast(value)) IN
       IF newTags # <<>>
       THEN [album EXCEPT !.tags = @ \o newTags,
                          !.currentTagInput = Trim(LastPart(value))]
       ELSE album
  ELSE [album EXCEPT !.currentTagInput = value]

\* handleTagInput: the album data after the tag input changed to value
handleTagInput(album, value) ==
  IF HasComma(value)
  THEN LET newTags == trimAndDedup(PartsBeforeLast(value)) IN
       IF newTags # <<>>
       THEN [album EXCEPT !.tags = trimAndDedup(@ \o newTags),
                          !.currentTagInput = Trim(LastPart(value))]
       ELSE album
  ELSE [album EXCEPT !.currentTagInput = value]

\* removeTag
removeTag(album, tagToRemove) ==
  LET Other(tag) == tag # tagToRemove IN [album EXCEPT !.tags = SelectSeq(@, Other)]

\* handleTagKeyDown, Enter
handleTagKeyDown(album) ==
  LET newTag == Trim(album.currentTagInput) IN
  IF newTag = <<>> \/ Includes(album.tags, newTag) THEN album
  ELSE [album EXCEPT !.tags = trimAndDedup(Append(@, newTag)), !.currentTagInput = <<>>]

\* texts typed into the tag input
TagTexts == {<<"w">>, <<"k">>, <<"k", ",", " ", "w", ",", "w", ",", "y">>}

TagInput(value) ==
  /\ ChipEdit
  /\ albumData' = handleTagInput(albumData, value)
  /\ UNCHANGED tracks

RemoveTag(tagToRemove) ==
  /\ ChipEdit
  /\ albumData' = removeTag(albumData, tagToRemove)
  /\ UNCHANGED tracks

TagKeyDown ==
  /\ ChipEdit
  /\ albumData' = handleTagKeyDown(albumData)
  /\ UNCHANGED tracks

\* handleArtistInput: the track after its artist input changed to value
handleArtistInput(track, value) ==
  IF HasComma(value)
  THEN LET newArtists == SelectSeq(TrimEach(PartsBeforeLast(value)), NonEmpty)
           remainingInput == Trim(LastPart(value))
       IN IF newArtists # <<>>
          THEN [track EXCEPT !.artists = trimAndDedup(@ \o newArtists),
                             !.currentArtistInput = remainingInput]
          ELSE [track EXCEPT !.currentArtistInput = remainingInput]
  ELSE [track EXCEPT !.currentArtistInput = value]

\* removeArtistTag
removeArtistTag(track, artistToRemove) ==
  LET Other(artist) == artist # artistToRemove
  IN [track EXCEPT !.artists = SelectSeq(@, Other)]

\* handleArtistPaste
handleArtistPaste(track, pastedText) ==
  IF Trim(pastedText) = <<>> THEN track
  ELSE LET separated == \E i \in 1..Len(pastedText) : pastedText[i] \in {";", ","}
           newArtists == IF separated
                         THEN SelectSeq(TrimEach(Split(pastedText, {";", ","})), NonEmpty)
                         ELSE <<Trim(pastedText)>>
           NotExisting(artist) == ~Includes(track.artists, artist)
           uniqueNewArtists == SelectSeq(newArtists, NotExisting)
       IN IF uniqueNewArtists # <<>>
          THEN [track EXCEPT !.artists = @ \o uniqueNewArtists,
                             !.currentArtistInput = <<>>]
          ELSE track

\* handleArtistKeyDown, Enter
handleArtistKeyDown(track) ==
  LET newArtist == Trim(track.currentArtistInput) IN
  IF newArtist = <<>> \/ Includes(track.artists, newArtist) THEN track
  ELSE [track EXCEPT !.artists = trimAndDedup(Append(@, newArtist)),
                     !.currentArtistInput = <<>>]

\* tracks.find(t => t.id === trackId)
TrackOf(trackId) ==
  tracks[CHOOSE k \in 1..Len(tracks) :
           tracks[k].id = trackId /\ \A j \in 1..(k - 1) : tracks[j].id # trackId]

\* tracks.map(t => t.id === trackId ? changed : t), the ids being unique
MapTrack(trackId, changed) ==
  [k \in 1..Len(tracks) |-> IF tracks[k].id = trackId THEN changed ELSE tracks[k]]

TrackIds == {tracks[k].id : k \in 1..Len(tracks)}

\* texts typed into an artist input, and texts pasted into it
ArtistTexts == {<<"x">>, <<"u", ",", "x", ",", "x", ",">>}
PastedTexts == {<<"x">>, <<"u", ";", " ", "x">>, <<"x", ";", "x">>}

ArtistInput(trackId, value) ==
  /\ ChipEdit
  /\ tracks' = MapTrack(trackId, handleArtistInput(TrackOf(trackId), value))
  /\ UNCHANGED albumData

RemoveArtistTag(trackId, artistToRemove) ==
  /\ ChipEdit
  /\ tracks' = MapTrack(trackId, removeArtistTag(TrackOf(trackId), artistToRemove))
  /\ UNCHANGED albumData

ArtistPaste(trackId, pastedText) ==
  /\ ChipEdit
  /\ tracks' = MapTrack(trackId, handleArtistPaste(TrackOf(trackId), pastedText))
  /\ UNCHANGED albumData

ArtistKeyDown(trackId) ==
  /\ ChipEdit
  /\ tracks' = MapTrack(trackId, handleArtistKeyDown(TrackOf(trackId)))
  /\ UNCHANGED albumData

\* onInput of a title input: handleTrackChange(track.id, "title", value)
TitleChange(trackId, value) ==
  /\ Edit
  /\ tracks' = MapTrack(trackId, [TrackOf(trackId) EXCEPT !.title = value])
  /\ UNCHANGED albumData

\* handleTrackDelete up to its await: the confirm dialog is shown; the
\* handler keeps the tracks of its render
TrackDeleteRequest(trackId) ==
  /\ trackId \in TrackIds
  /\ call = NoCall
  /\ edits < MaxEdits
  /\ call' = [NoCall EXCEPT !.pc = "handleTrackDelete", !.input = trackId, !.once = tracks]
  /\ UNCHANGED <<uiVars, batchVars, outputFiles, convertProgress, showExportDialog,
                 exportSettings, export, conversion, listeners>>

\* the confirm dialog of handleTrackDelete was answered:
\* setTracks(tracks.filter(t => t.id !== trackId)) on the tracks of the render
TrackDeleteAnswer(userConfirmed) ==
  /\ call.pc = "handleTrackDelete"
  /\ call' = NoCall
  /\ edits' = edits + 1
  /\ tracks' = IF userConfirmed
               THEN SelectSeq(call.once, LAMBDA t : t.id # call.input)
               ELSE tracks
  /\ UNCHANGED <<albumData, isProcessing, processingProgress, completedCount, batch,
                 extraction, submissions, duplicateFilesDialog, outputFiles, convertProgress,
                 showExportDialog, exportSettings, export, conversion, listeners>>

\* ------------------------------------------------------------- sorting
\* the comparator of handleSort looking at the track numbers only
comparesBelowByTrackOnly(a, b) ==
  NumberLess(ParseIntOrZero(a.trackNumber), ParseIntOrZero(b.trackNumber))

\* the comparator of handleSort returns a negative number: a sorts before b
comparesBelow(a, b) ==
  LET diskA  == ParseIntOrZero(a.diskNumber)
      diskB  == ParseIntOrZero(b.diskNumber)
      trackA == ParseIntOrZero(a.trackNumber)
      trackB == ParseIntOrZero(b.trackNumber)
  IN IF diskA # diskB THEN NumberLess(diskA, diskB) ELSE NumberLess(trackA, trackB)

\* a track put into a sorted list behind the tracks that do not sort after it
InsertSorted(sorted, t) ==
  LET pos == Cardinality({i \in 1..Len(sorted) : ~comparesBelow(t, sorted[i])})
  IN SubSeq(sorted, 1, pos) \o <<t>> \o SubSeq(sorted, pos + 1, Len(sorted))

RECURSIVE SortedPrefix(_, _)
SortedPrefix(list, n) ==
  IF n = 0 THEN <<>> ELSE InsertSorted(SortedPrefix(list, n - 1), list[n])

\* [...tracks].sort(comparator), the sort being stable
handleSort(list) == SortedPrefix(list, Len(list))

\* ------------------------------------------------ disk and track numbers
\* handleNumberInput
handleNumberInput(value) == SelectSeq(value, IsDigit)

\* padNumber: numeric.padStart(2, "0")
padNumber(value) ==
  LET numeric == SelectSeq(value, IsDigit) IN
  IF numeric = <<>> THEN <<>>
  ELSE IF Len(numeric) < 2 THEN <<"0">> \o numeric ELSE numeric

NumberFields == {"diskNumber", "trackNumber"}

\* texts typed into a number input
NumberTexts == {<<>>, <<"a", "3">>, <<"0", "0", "7">>}

\* onInput of a number input
NumberInput(trackId, field, value) ==
  /\ ChipEdit
  /\ tracks' = MapTrack(trackId, [TrackOf(trackId) EXCEPT ![field] = handleNumberInput(value)])
  /\ UNCHANGED albumData

\* onBlur of a number input: the input shows the stored value
NumberBlur(trackId, field) ==
  /\ ChipEdit
  /\ tracks' = MapTrack(trackId, [TrackOf(trackId) EXCEPT ![field] = padNumber(TrackOf(trackId)[field])])
  /\ UNCHANGED albumData

\* the "all files already loaded" dialog was closed
DuplicateFilesDialogClosed ==
  /\ duplicateFilesDialog
  /\ duplicateFilesDialog' = FALSE
  /\ UNCHANGED <<uiVars, batch, extraction, submissions, edits, exportVars>>

\* ------------------------------------------------------------- export
\* handleExport
OpenExportDialog ==
  /\ tracks # <<>>
  /\ showExportDialog' = TRUE
  /\ UNCHANGED <<uiVars, batchVars, call, outputFiles, convertProgress, exportSettings, export, conversion,
                 listeners>>

OutputFolder == <<"o">>

\* handleSelectOutputFolder, after the folder dialog returned a folder
SelectOutputFolder ==
  /\ showExportDialog
  /\ exportSettings' = [exportSettings EXCEPT !.outputPath = OutputFolder]
  /\ UNCHANGED <<uiVars, batchVars, call, outputFiles, convertProgress, showExportDialog, export, conversion,
                 listeners>>

\* the overwrite-mode select of the export dialog
SelectOverwriteMode(mode) ==
  /\ showExportDialog
  /\ exportSettings' = [exportSettings EXCEPT !.overwriteMode = mode]
  /\ UNCHANGED <<uiVars, batchVars, call, outputFiles, convertProgress, showExportDialog,
                 export, conversion, listeners>>

\* handleFormatChange, on a change of the format select
FormatChange(newFormat) ==
  /\ showExportDialog
  /\ newFormat # exportSettings.format
  /\ exportSettings' = [exportSettings EXCEPT !.format = newFormat, !.quality = "high"]
  /\ UNCHANGED <<uiVars, batchVars, call, outputFiles, convertProgress, showExportDialog,
                 export, conversion, listeners>>

\* the quality select of the export dialog, on a change
QualityChange(quality) ==
  /\ showExportDialog
  /\ quality # exportSettings.quality
  /\ exportSettings' = [exportSettings EXCEPT !.quality = quality]
  /\ UNCHANGED <<uiVars, batchVars, call, outputFiles, convertProgress, showExportDialog,
                 export, conversion, listeners>>

\* convertQuality with the table of MP3 only
convertQualityMp3Only(format, quality) ==
  IF format = "MP3"
  THEN CASE quality = "highest" -> <<"3", "2", "0">>
         [] quality = "high"    -> <<"2", "5", "6">>
         [] quality = "medium"  -> <<"1", "9", "2">>
         [] quality = "low"     -> <<"1", "2", "8">>
         [] OTHER               -> <<"1", "9", "2">>
  ELSE <<"1", "9", "2">>

\* convertQuality
convertQuality(format, quality) ==
  IF format \in {"MP3", "M4A"}
  THEN CASE quality = "highest" -> <<"3", "2", "0">>
         [] quality = "high"    -> <<"2", "5", "6">>
         [] quality = "medium"  -> <<"1", "9", "2">>
         [] quality = "low"     -> <<"1", "2", "8">>
         [] OTHER               -> <<"1", "9", "2">>
  ELSE <<"1", "9", "2">>

\* the output settings of a conversion request
convertOutputSettingsOf(settings) ==
  [output_path |-> settings.outputPath,
   format |-> settings.format,
   quality |-> convertQuality(settings.format, settings.quality),
   overwrite_mode |-> settings.overwriteMode]

\* tracks.map(track => ({source_path, disk_number, track_number, title, artists}))
convertTrack(track) ==
  [source_path  |-> track.filePath,
   disk_number  |-> OrElse(track.diskNumber, <<"1">>),
   track_number |-> OrElse(track.trackNumber, <<"1">>),
   title   |-> track.title,
   artists |-> track.artists]

convertTracksOf(currentTracks) ==
  [k \in 1..Len(currentTracks) |-> convertTrack(currentTracks[k])]

maxRetries == 3

\* performConversion up to its first await: setCompletedCount(0); await listen(...)
PerformConversion ==
  /\ completedCount' = 0

\* ActualExport without the check of the output folder
ActualExportUnvalidated ==
  /\ showExportDialog
  /\ export.pc = "idle"
  /\ showExportDialog' = FALSE
  /\ isProcessing' = TRUE
  /\ PerformConversion
  /\ export' = [IdleExport EXCEPT
                  !.pc = "listen",
                  !.tracks = tracks,
                  !.convertOutputSettings = convertOutputSettingsOf(exportSettings),
                  !.currentTracksToConvert = convertTracksOf(tracks)]
  /\ UNCHANGED <<albumData, processingProgress, tracks, batchVars, call, outputFiles,
                 convertProgress, exportSettings, conversion, listeners>>

\* handleActualExport up to its first await
ActualExport ==
  /\ showExportDialog
  /\ export.pc = "idle"
  /\ IF exportSettings.outputPath = <<>>
     THEN /\ export' = [export EXCEPT !.pc = "validation_dialog"]
          /\ UNCHANGED <<isProcessing, completedCount, showExportDialog>>
     ELSE /\ showExportDialog' = FALSE
          /\ isProcessing' = TRUE
          /\ PerformConversion
          /\ export' = [IdleExport EXCEPT
                          !.pc = "listen",
                          !.tracks = tracks,
                          !.convertOutputSettings = convertOutputSettingsOf(exportSettings),
                          !.currentTracksToConvert = convertTracksOf(tracks)]
  /\ UNCHANGED <<albumData, processingProgress, tracks, batchVars, call, outputFiles, convertProgress,
                 exportSettings, conversion, listeners>>

\* a dialog that ends the export was closed
ExportDialogClosed ==
  /\ export.pc \in {"validation_dialog", "done_dialog", "limit_dialog", "error_dialog"}
  /\ export' = IdleExport
  /\ UNCHANGED <<uiVars, batchVars, call, outputFiles, convertProgress, showExportDialog, exportSettings,
                 conversion, listeners>>

\* backend: a job of a convert_audio_files call no worker has finished yet
PendingJob == [started |-> FALSE, done |-> FALSE, ok |-> FALSE, output |-> <<>>]

\* listen returned: the listener is registered and convert_audio_files invoked
ListenReturn ==
  /\ export.pc = "listen"
  /\ listeners' = listeners + 1
  /\ export' = [export EXCEPT !.pc = "convert_audio_files"]
  /\ conversion' = [k \in 1..Len(export.currentTracksToConvert) |-> PendingJob]
  /\ UNCHANGED <<uiVars, batchVars, call, outputFiles, convertProgress, showExportDialog, exportSettings>>

FinishedJobs == {k \in 1..Len(conversion) : conversion[k].done}

\* backend: the file name derived from a job's disk number, track number and title
OutputPath(settings, job) ==
  settings.output_path \o <<"/">> \o job.disk_number \o <<"-">> \o job.track_number
    \o <<" ">> \o job.title \o <<".", settings.format>>

\* backend: the derived name with the numeric disambiguator n before the extension
DisambiguatedPath(settings, job, n) ==
  settings.output_path \o <<"/">> \o job.disk_number \o <<"-">> \o job.track_number
    \o <<" ">> \o job.title \o <<" ", "(">> \o DecimalText(n) \o <<")">>
    \o <<".", settings.format>>

\* backend: Overwrite writes to the derived name; Rename takes the derived
\* name if no file has it, else the first disambiguated name no file has
DestinationOf(settings, job, existing) ==
  IF settings.overwrite_mode = "overwrite" \/ OutputPath(settings, job) \notin existing
  THEN OutputPath(settings, job)
  ELSE LET n == CHOOSE n \in 1..(Cardinality(existing) + 1) :
                  /\ DisambiguatedPath(settings, job, n) \notin existing
                  /\ \A m \in 1..(n - 1) : DisambiguatedPath(settings, job, m) \in existing
       IN DisambiguatedPath(settings, job, n)

\* backend: a worker takes a job and settles its destination, then invokes
\* the external tool; the workers of a pool share no state but the files
ConvertWorkerStart(k) ==
  /\ export.pc = "convert_audio_files"
  /\ k \in 1..Len(conversion)
  /\ ~conversion[k].started
  /\ conversion' = [conversion EXCEPT
                      ![k].started = TRUE,
                      ![k].output = DestinationOf(export.convertOutputSettings,
                                                  export.currentTracksToConvert[k],
                                                  outputFiles)]
  /\ UNCHANGED <<uiVars, batchVars, call, outputFiles, convertProgress, showExportDialog,
                 exportSettings, export, listeners>>

\* backend: the external tool of a job returned, in any order, with success
\* (the destination is written) or failure; the worker's progress event
\* reaches the convert-progress listener
ConvertWorkerFinish(k, ok) ==
  /\ export.pc = "convert_audio_files"
  /\ k \in 1..Len(conversion)
  /\ conversion[k].started
  /\ ~conversion[k].done
  /\ conversion' = [conversion EXCEPT ![k].done = TRUE, ![k].ok = ok]
  /\ outputFiles' = IF ok THEN outputFiles \cup {conversion[k].output} ELSE outputFiles
  /\ LET progress == [current |-> Cardinality(FinishedJobs) + 1,
                      total |-> Len(conversion),
                      currentFile |-> export.currentTracksToConvert[k].source_path,
                      status |-> IF ok THEN "completed" ELSE "error"]
     IN /\ completedCount' = ListenerCount(completedCount, progress)
        /\ convertProgress' = progress
  /\ UNCHANGED <<albumData, isProcessing, processingProgress, tracks, batchVars, call,
                 showExportDialog, exportSettings, export, listeners>>

\* backend: the ConvertResult of a finished call
JobsWith(jobs, ok) == {k \in 1..Len(jobs) : jobs[k].ok = ok}

RECURSIVE Pick(_, _, _)
\* the elements of list at the indices in K, in list order
Pick(list, K, k) ==
  IF k > Len(list) THEN <<>>
  ELSE (IF k \in K THEN <<list[k]>> ELSE <<>>) \o Pick(list, K, k + 1)

\* converted_files of a backend that stops at the first failing job
converted_filesUntilFailure(settings, submitted, jobs) ==
  LET failing == JobsWith(jobs, FALSE)
      before  == {k \in JobsWith(jobs, TRUE) : \A f \in failing : k < f}
      done    == Pick(jobs, before, 1)
  IN [k \in 1..Len(done) |-> done[k].output]

converted_files(settings, submitted, jobs) ==
  LET done == Pick(jobs, JobsWith(jobs, TRUE), 1)
  IN [k \in 1..Len(done) |-> done[k].output]

failed_files(submitted, jobs) ==
  LET failed == Pick(submitted, JobsWith(jobs, FALSE), 1)
  IN [k \in 1..Len(failed) |-> [source_path |-> failed[k].source_path,
                                error_message |-> ErrorText]]

\* convert_audio_files returned: unlisten, record the successes, ask or finish
ConvertReturn ==
  /\ export.pc = "convert_audio_files"
  /\ FinishedJobs = 1..Len(conversion)
  /\ LET converted == converted_files(export.convertOutputSettings,
                                      export.currentTracksToConvert, conversion)
         failed == failed_files(export.currentTracksToConvert, conversion)
     IN export' = [export EXCEPT
                     !.pc = IF failed # <<>> THEN "retry_dialog" ELSE "done_dialog",
                     !.allConvertedFiles = @ \o converted,
                     !.failed_files = failed]
  /\ listeners' = listeners - 1
  /\ conversion' = <<>>
  /\ isProcessing' = FALSE
  /\ convertProgress' = NoProgress
  /\ UNCHANGED <<albumData, processingProgress, completedCount, tracks, batchVars, call, outputFiles,
                 showExportDialog, exportSettings>>

\* ConvertRejected without the unlisten of the catch block
ConvertRejectedListening ==
  /\ export.pc \in {"listen", "convert_audio_files"}
  /\ listeners' = listeners
  /\ export' = [export EXCEPT !.pc = "error_dialog"]
  /\ conversion' = <<>>
  /\ isProcessing' = FALSE
  /\ convertProgress' = NoProgress
  /\ UNCHANGED <<albumData, processingProgress, completedCount, tracks, batchVars, call, outputFiles,
                 showExportDialog, exportSettings>>

\* listen or convert_audio_files rejected: unlisten if registered, catch
ConvertRejected ==
  /\ export.pc \in {"listen", "convert_audio_files"}
  /\ listeners' = IF export.pc = "convert_audio_files" THEN listeners - 1 ELSE listeners
  /\ export' = [export EXCEPT !.pc = "error_dialog"]
  /\ conversion' = <<>>
  /\ isProcessing' = FALSE
  /\ convertProgress' = NoProgress
  /\ UNCHANGED <<albumData, processingProgress, completedCount, tracks, batchVars, call, outputFiles,
                 showExportDialog, exportSettings>>

Unknown == <<"U", "n", "k", "n", "o", "w", "n">>

\* the retry job of a failed file, from tracks.find(t => t.filePath === source_path)
retryTrack(closure, source_path) ==
  IF \E k \in 1..Len(closure) : closure[k].filePath = source_path
  THEN LET k == CHOOSE k \in 1..Len(closure) :
                  /\ closure[k].filePath = source_path
                  /\ \A j \in 1..(k - 1) : closure[j].filePath # source_path
           originalTrack == closure[k]
       IN [source_path  |-> source_path,
           disk_number  |-> OrElse(originalTrack.diskNumber, <<"1">>),
           track_number |-> OrElse(originalTrack.trackNumber, <<"1">>),
           title   |-> OrElse(originalTrack.title, Unknown),
           artists |-> originalTrack.artists]
  ELSE [source_path |-> source_path, disk_number |-> <<"1">>, track_number |-> <<"1">>,
        title |-> Unknown, artists |-> <<>>]

\* RetryDecision without the limit on the retry count
RetryDecisionUnlimited(shouldRetry) ==
  /\ export.pc = "retry_dialog"
  /\ IF ~shouldRetry
     THEN /\ export' = IdleExport
          /\ UNCHANGED <<isProcessing, completedCount>>
     ELSE /\ export' = [export EXCEPT
                          !.pc = "listen",
                          !.retryCount = @ + 1,
                          !.currentTracksToConvert =
                             [k \in 1..Len(export.failed_files) |->
                                retryTrack(export.tracks, export.failed_files[k].source_path)]]
          /\ isProcessing' = TRUE
          /\ PerformConversion
  /\ UNCHANGED <<albumData, processingProgress, tracks, batchVars, call, outputFiles, convertProgress,
                 showExportDialog, exportSettings, conversion, listeners>>

\* the retry dialog was answered
RetryDecision(shouldRetry) ==
  /\ export.pc = "retry_dialog"
  /\ IF ~shouldRetry
     THEN /\ export' = IdleExport
          /\ UNCHANGED <<isProcessing, completedCount>>
     ELSE IF export.retryCount + 1 > maxRetries
     THEN /\ export' = [export EXCEPT !.pc = "limit_dialog", !.retryCount = @ + 1]
          /\ UNCHANGED <<isProcessing, completedCount>>
     ELSE /\ export' = [export EXCEPT
                          !.pc = "listen",
                          !.retryCount = @ + 1,
                          !.currentTracksToConvert =
                             [k \in 1..Len(export.failed_files) |->
                                retryTrack(export.tracks, export.failed_files[k].source_path)]]
          /\ isProcessing' = TRUE
          /\ PerformConversion
  /\ UNCHANGED <<albumData, processingProgress, tracks, batchVars, call, outputFiles, convertProgress,
                 showExportDialog, exportSettings, conversion, listeners>>

\* ------------------------------------------------------------------- Next
\* the batches in progress
Active == {p \in Batches : batch[p].pc # "idle"}

Exporting == export.pc # "idle"

\* nothing is in progress and no confirmation is awaited: the user of Spec
\* and SpecExport waits for that
Quiet == Active = {} /\ ~Exporting /\ call = NoCall

\* the full-screen overlay of a batch or an export that has reported progress
OverlayShown ==
  isProcessing /\ (convertProgress # NoProgress \/ processingProgress # NoProgress)

\* exports are started while the output folders hold few files
FolderHasRoom == Cardinality(outputFiles) < MaxOutputFiles

Submit ==
  \/ \E paths \in PathLists : Quiet /\ PickAudioFiles(paths)
  \/ \E audioPaths \in PathLists \cup {<<>>}, imagePaths \in ImageLists :
       Quiet /\ DragDrop(audioPaths, imagePaths)
  \/ \E audioPaths \in PathLists \cup {<<>>}, imagePaths \in ImageLists :
       Quiet /\ PickDirectories(audioPaths, imagePaths)
  \/ DuplicateFilesDialogClosed

Extract ==
  \/ \E p \in Batches, ffmpegAvailable \in BOOLEAN : CheckFfmpegReturn(p, ffmpegAvailable)
  \/ \E p \in Batches : FfmpegMissingClosed(p)
  \/ \E p \in Batches : InvokeRejected(p)
  \/ \E p \in Batches : ErrorDialogClosed(p)
  \/ \E p \in Batches : \E k \in 1..Len(batch[p].newFilePaths) :
       \E result \in ProbeOutcomes(batch[p].newFilePaths[k]) : WorkerFinish(p, k, result)
  \/ \E p \in Batches : ProcessAudioFilesReturn(p)
  \/ \E p \in Batches, saved \in BOOLEAN : SaveAlbumArtReturn(p, saved)
  \/ \E p \in Batches, proceed \in BOOLEAN : ConfirmDuplicates(p, proceed)

EditAlbum ==
  \/ \E artworkPath \in ImagePaths : SelectArtworkFile(artworkPath)
  \/ ClearAlbumArtwork
  \/ \E field \in {"albumTitle", "albumArtist", "releaseDate"}, value \in TypedTexts :
       AlbumFieldChange(field, value)
  \/ ClearAll

\* loading and editing, one batch at a time
Next == Submit \/ Extract \/ EditAlbum

Spec == Init /\ [][Next]_vars

\* picks that load a file, or a pair colliding on disk and track number
LivePicks == {<<PathA>>, <<PathA, PathB>>}

\* loading only, batches overlapping
NextLive ==
  \/ \E paths \in LivePicks : PickAudioFiles(paths)
  \/ DuplicateFilesDialogClosed
  \/ Extract

\* every backend command and every dialog of a batch eventually returns
SpecLive == Init /\ [][NextLive]_vars /\ WF_vars(Extract)

Convert ==
  \/ ExportDialogClosed
  \/ ListenReturn
  \/ \E k \in 1..Len(conversion) : ConvertWorkerStart(k)
  \/ \E k \in 1..Len(conversion), ok \in BOOLEAN : ConvertWorkerFinish(k, ok)
  \/ ConvertReturn
  \/ ConvertRejected
  \/ \E shouldRetry \in BOOLEAN : RetryDecision(shouldRetry)

\* drops of one audio file or of one pair, overlapping with each other and with exports
OverlapDrops == {<<path>> : path \in AudioPaths} \cup {<<PathA, PathB>>}

NextOverlap ==
  \/ \E audioPaths \in OverlapDrops : DragDrop(audioPaths, <<>>)
  \/ DuplicateFilesDialogClosed
  \/ Extract
  \/ OpenExportDialog
  \/ SelectOutputFolder
  \/ FolderHasRoom /\ ActualExport
  \/ Convert

SpecOverlap == Init /\ [][NextOverlap]_vars

\* loading, then exports of the loaded tracks, one job at a time
NextExport ==
  \/ \E paths \in PathLists : Quiet /\ PickAudioFiles(paths)
  \/ DuplicateFilesDialogClosed
  \/ Extract
  \/ OpenExportDialog
  \/ SelectOutputFolder
  \/ Quiet /\ FolderHasRoom /\ ActualExport
  \/ Convert

SpecExport == Init /\ [][NextExport]_vars

\* picks of the files whose titles are edited before an export
RetryPicks == {<<PathC>>, <<PathA, PathB>>}

\* titles typed before an export: none, and the title of the file PathA
RetryTitles == {<<>>, MetaA.title}

\* loading, edits of the titles, then exports with retries
NextRetry ==
  \/ \E paths \in RetryPicks : Quiet /\ PickAudioFiles(paths)
  \/ DuplicateFilesDialogClosed
  \/ Extract
  \/ \E trackId \in TrackIds, value \in RetryTitles : Quiet /\ TitleChange(trackId, value)
  \/ \E trackId \in TrackIds : Quiet /\ TrackDeleteRequest(trackId)
  \/ \E userConfirmed \in BOOLEAN : TrackDeleteAnswer(userConfirmed)
  \/ Quiet /\ ClearAll
  \/ OpenExportDialog
  \/ SelectOutputFolder
  \/ \E mode \in {"overwrite", "rename"} : SelectOverwriteMode(mode)
  \/ Quiet /\ FolderHasRoom /\ ActualExport
  \/ Convert

SpecRetry == Init /\ [][NextRetry]_vars

\* the formats and the tiers the selects of the export dialog offer
Formats == {"MP3", "M4A"}
QualityOptions == {"highest", "high", "medium", "low"}

\* loading two files, then exports under every format and quality tier
NextSettings ==
  \/ Quiet /\ PickAudioFiles(<<PathA, PathB>>)
  \/ DuplicateFilesDialogClosed
  \/ Extract
  \/ OpenExportDialog
  \/ SelectOutputFolder
  \/ \E newFormat \in Formats : FormatChange(newFormat)
  \/ \E quality \in QualityOptions : QualityChange(quality)
  \/ Quiet /\ FolderHasRoom /\ ActualExport
  \/ Convert

SpecSettings == Init /\ [][NextSettings]_vars

\* loading two files, then exports of them, one at a time
NextExportLive ==
  \/ Quiet /\ PickAudioFiles(<<PathA, PathB>>)
  \/ DuplicateFilesDialogClosed
  \/ Extract
  \/ OpenExportDialog
  \/ SelectOutputFolder
  \/ Quiet /\ FolderHasRoom /\ ActualExport
  \/ Convert

\* the convert command, the listener registration and every dialog of an
\* export eventually return
SpecExportLive == Init /\ [][NextExportLive]_vars /\ WF_vars(Convert)

\* picks of the files whose tags and artists the chip edits work on
EditPicks == {<<PathA>>, <<PathB, PathA>>}

EditTags ==
  \/ \E value \in TagTexts : TagInput(value)
  \/ \E k \in 1..Len(albumData.tags) : RemoveTag(albumData.tags[k])
  \/ TagKeyDown

EditArtists ==
  \/ \E trackId \in TrackIds, value \in ArtistTexts : ArtistInput(trackId, value)
  \/ \E k \in 1..Len(tracks) : \E j \in 1..Len(tracks[k].artists) :
       RemoveArtistTag(tracks[k].id, tracks[k].artists[j])
  \/ \E trackId \in TrackIds, pastedText \in PastedTexts : ArtistPaste(trackId, pastedText)
  \/ \E trackId \in TrackIds : ArtistKeyDown(trackId)

EditNumbers ==
  \/ \E trackId \in TrackIds, field \in NumberFields, value \in NumberTexts :
       NumberInput(trackId, field, value)
  \/ \E trackId \in TrackIds, field \in NumberFields : NumberBlur(trackId, field)

\* loading, then edits of the tags, the artists and the numbers
NextEdit ==
  \/ \E paths \in EditPicks : Quiet /\ PickAudioFiles(paths)
  \/ DuplicateFilesDialogClosed
  \/ Extract
  \/ ClearAll
  \/ EditTags
  \/ EditArtists
  \/ EditNumbers

SpecEdit == Init /\ [][NextEdit]_vars

\* picks of one file, or of a pair colliding on disk and track number
DeletePicks == {<<path>> : path \in AudioPaths} \cup {<<PathA, PathB>>}

\* loading, and deletions requested while no overlay covers the track table:
\* a batch that has not reported progress goes on behind the confirmation
NextDelete ==
  \/ \E paths \in DeletePicks : Quiet /\ PickAudioFiles(paths)
  \/ DuplicateFilesDialogClosed
  \/ Extract
  \/ \E trackId \in TrackIds : ~OverlayShown /\ TrackDeleteRequest(trackId)
  \/ \E userConfirmed \in BOOLEAN : TrackDeleteAnswer(userConfirmed)

SpecDelete == Init /\ [][NextDelete]_vars

\* ------------------------------------- normalizeNumberString on its own
\* the text of 10^21: a one and twenty-one zeros
TenToThe21 == <<"1">> \o [k \in 1..21 |-> "0"]

\* texts a metadata field can hold: short ones over a zero, a digit and a
\* letter, a mixed one and a long number
NumberStrings ==
  SeqsUpTo({"0", "7", "a"}, MaxNumberLen)
    \cup {<<"a", "b", "1", "2", "c", "d">>, <<"0", "0", "1", "0", "0">>, TenToThe21}

InitNormalize ==
  /\ Constructed
  /\ call \in {[NoCall EXCEPT !.pc = "given", !.input = value] : value \in NumberStrings}

\* normalizeNumberString(input)
Normalize ==
  /\ call.pc = "given"
  /\ call' = [call EXCEPT !.pc = "once", !.once = normalizeNumberString(call.input)]
  /\ UNCHANGED <<uiVars, batchVars, outputFiles, convertProgress, showExportDialog,
                 exportSettings, export, conversion, listeners>>

\* normalizeNumberString of the result
NormalizeAgain ==
  /\ call.pc = "once"
  /\ call' = [call EXCEPT !.pc = "twice", !.twice = normalizeNumberString(call.once)]
  /\ UNCHANGED <<uiVars, batchVars, outputFiles, convertProgress, showExportDialog,
                 exportSettings, export, conversion, listeners>>

NextNormalize == Normalize \/ NormalizeAgain

SpecNormalize == InitNormalize /\ [][NextNormalize]_vars

\* ------------------------------------ the progress listeners on their own
\* the progress events the workers of one batch can emit
ProgressEvents ==
  [current : 1..MaxEvents, total : {MaxEvents}, file_path : {PathA},
   status : {"processing", "completed", "error"}]

\* a batch has started (the completed count is 0) and its events are about to
\* arrive, in an order the workers decide
InitProgress ==
  /\ Constructed
  /\ call \in {[NoCall EXCEPT !.pc = channel, !.input = events] :
                 channel \in {"audio-processing-progress", "convert-progress"},
                 events \in SeqsUpTo(ProgressEvents, MaxEvents)}

\* the listener of audio-processing-progress receives the next event
AudioProgressEvent ==
  /\ call.pc = "audio-processing-progress"
  /\ Len(call.once) < Len(call.input)
  /\ LET progress == call.input[Len(call.once) + 1]
     IN /\ call' = [call EXCEPT !.once = Append(@, progress)]
        /\ completedCount' = ListenerCount(completedCount, progress)
        /\ processingProgress' = progress
  /\ UNCHANGED <<albumData, isProcessing, tracks, batchVars, outputFiles, convertProgress,
                 showExportDialog, exportSettings, export, conversion, listeners>>

\* the listener of convert-progress receives the next event
ConvertProgressEvent ==
  /\ call.pc = "convert-progress"
  /\ Len(call.once) < Len(call.input)
  /\ LET progress == call.input[Len(call.once) + 1]
     IN /\ call' = [call EXCEPT !.once = Append(@, progress)]
        /\ completedCount' = ListenerCount(completedCount, progress)
        /\ convertProgress' = [current |-> progress.current, total |-> progress.total,
                               currentFile |-> progress.file_path, status |-> progress.status]
  /\ UNCHANGED <<albumData, isProcessing, processingProgress, tracks, batchVars, outputFiles,
                 showExportDialog, exportSettings, export, conversion, listeners>>

NextProgress == AudioProgressEvent \/ ConvertProgressEvent

SpecProgress == InitProgress /\ [][NextProgress]_vars

\* ----------------------------------------------------- handleSort on its own
\* disk numbers and track numbers of the tracks that are sorted: unset,
\* zero, with and without a leading zero, and of two digits
SortDisks == {<<>>, <<"1">>, <<"0", "2">>}
SortNumbers == {<<>>, <<"0">>, <<"2">>, <<"0", "2">>, <<"1", "0">>}

\* the track lists of up to MaxSorted tracks over these numbers
SortLists ==
  UNION {{[k \in 1..n |->
             [id |-> k, diskNumber |-> disks[k], trackNumber |-> numbers[k],
              title |-> <<"t">>, artists |-> <<>>, currentArtistInput |-> <<>>,
              filePath |-> NoPath]] :
            disks \in [1..n -> SortDisks], numbers \in [1..n -> SortNumbers]} :
         n \in 0..MaxSorted}

InitSort ==
  /\ Constructed
  /\ call \in {[NoCall EXCEPT !.pc = "tracks", !.input = list] : list \in SortLists}

\* handleSort, the tracks of the render being the given list
Sort ==
  /\ call.pc = "tracks"
  /\ call' = [call EXCEPT !.pc = "handleSort"]
  /\ tracks' = handleSort(call.input)
  /\ UNCHANGED <<albumData, isProcessing, processingProgress, completedCount, batchVars,
                 outputFiles, convertProgress, showExportDialog, exportSettings, export,
                 conversion, listeners>>

NextSort == Sort

SpecSort == InitSort /\ [][NextSort]_vars

\* ------------------------------------------- choosing among scanned images
\* the image files a scan of dropped or picked folders can return, in order
ArtworkLists == SeqsUpTo(ArtworkCandidates, MaxScanned) \ {<<>>}

InitArtwork ==
  /\ Constructed
  /\ call \in {[NoCall EXCEPT !.pc = "scanned", !.input = paths] : paths \in ArtworkLists}

\* the image part of a drop or of a folder pick that found images only
LoadImages(handler) ==
  /\ call.pc = "scanned"
  /\ call' = [call EXCEPT !.pc = handler]
  /\ albumData' = WithExternalArtwork(albumData, bestImage(call.input))
  /\ UNCHANGED <<isProcessing, processingProgress, completedCount, tracks, batchVars,
                 outputFiles, convertProgress, showExportDialog, exportSettings, export,
                 conversion, listeners>>

\* the tauri://drag-drop listener on images only
DragDropImages == LoadImages("drag-drop")

\* processSelectedDirectories on images only
PickDirectoriesImages == LoadImages("processSelectedDirectories")

NextArtwork == DragDropImages \/ PickDirectoriesImages

SpecArtwork == InitArtwork /\ [][NextArtwork]_vars

\* =================================================================== claims
Range(list) == {list[k] : k \in 1..Len(list)}

\* the extract commands and the convert command invoked and not yet returned
CommandsInFlight ==
  Cardinality({p \in Batches : extraction[p] # <<>>}) + (IF conversion # <<>> THEN 1 ELSE 0)

\* C1: at every moment at most one batch, extraction or conversion, is in
\* flight: no extract or convert command is invoked while another has not
\* returned.
C1_OneBatchInFlight == CommandsInFlight <= 1

\* C2: when a conversion call returns, each submitted job is either among the
\* converted files or among the failed files, never both, so that the two
\* lists together are as long as the list of submitted jobs; a failed job
\* removes no sibling.
C2_EveryJobSucceedsOrFails ==
  [][(export.pc = "convert_audio_files" /\ export'.pc \in {"retry_dialog", "done_dialog"}) =>
       LET submitted == export.currentTracksToConvert
           succeeded == SubSeq(export'.allConvertedFiles,
                               Len(export.allConvertedFiles) + 1,
                               Len(export'.allConvertedFiles))
           failed    == export'.failed_files
       IN /\ Len(succeeded) + Len(failed) = Len(submitted)
          /\ Len(failed) = Cardinality({k \in 1..Len(submitted) : ~conversion[k].ok})
          /\ \A f \in Range(failed) :
               \E k \in 1..Len(submitted) :
                 ~conversion[k].ok /\ submitted[k].source_path = f.source_path]_vars

\* C2 witness: a call of two jobs returned one converted and one failed file
C2_Witness ==
  /\ export.pc = "retry_dialog"
  /\ export.retryCount = 0
  /\ Len(export.currentTracksToConvert) = 2
  /\ Len(export.allConvertedFiles) = 1
  /\ Len(export.failed_files) = 1

ExactlyOneOf(result) == result.hasMetadata # (result.error # <<>>)

\* C3: the extraction of N paths holds N results, the k-th for the k-th
\* path, and each result carries exactly one of metadata and error.
C3_OneResultPerPath ==
  \A p \in Batches :
    /\ batch[p].pc = "process_audio_files" =>
         LET results == resultsOf(extraction[p])
         IN /\ Len(results) = Len(batch[p].newFilePaths)
            /\ \A k \in Finished(extraction[p]) :
                 /\ results[k].file_path = batch[p].newFilePaths[k]
                 /\ ExactlyOneOf(results[k])
    /\ batch[p].results # <<>> =>
         /\ Len(batch[p].results) = Len(batch[p].newFilePaths)
         /\ \A k \in 1..Len(batch[p].results) :
              /\ batch[p].results[k].file_path = batch[p].newFilePaths[k]
              /\ ExactlyOneOf(batch[p].results[k])

\* C3 witness: two paths extracted, one with an error and one with metadata
C3_Witness ==
  \E p \in Batches :
    /\ batch[p].pc = "process_audio_files"
    /\ Len(extraction[p]) = 2
    /\ Finished(extraction[p]) = {1, 2}
    /\ extraction[p][1].result.error # <<>>
    /\ extraction[p][2].result.hasMetadata

\* the file paths of the tracks are paths of the list, taken in its order
InInputOrder(appended, paths) ==
  \E f \in [1..Len(appended) -> 1..Len(paths)] :
    /\ \A j \in 1..Len(appended) : appended[j].filePath = paths[f[j]]
    /\ \A j \in 1..(Len(appended) - 1) : f[j] < f[j + 1]

\* C11: the results of a batch are in the order of the submitted paths in
\* whatever order the workers completed, and so are the tracks the batch
\* appends after the existing tracks.
C11_ResultsInInputOrder ==
  [][\A p \in Batches :
       /\ (batch[p].pc = "process_audio_files" /\ batch'[p].pc = "save_album_art_to_cache") =>
            \A k \in 1..Len(batch'[p].results) :
              batch'[p].results[k].file_path = batch[p].newFilePaths[k]
       /\ (batch[p].pc # "idle" /\ batch'[p].pc = "idle" /\ Len(tracks') > Len(tracks)) =>
            /\ SubSeq(tracks', 1, Len(tracks)) = tracks
            /\ InInputOrder(SubSeq(tracks', Len(tracks) + 1, Len(tracks')),
                            batch[p].newFilePaths)]_vars

\* C11 witness: the worker of the second path finished first, and the
\* returned list and the tracks built from it start with the first path
C11_Witness ==
  \E p \in Batches :
    /\ batch[p].pc = "save_album_art_to_cache"
    /\ batch[p].newFilePaths = <<PathB, PathA>>
    /\ processingProgress.file_path = PathB
    /\ processingProgress.current = 2
    /\ batch[p].results[1].file_path = PathB
    /\ batch[p].results[2].file_path = PathA
    /\ Len(batch[p].newTracks) = 1
    /\ batch[p].newTracks[1].filePath = PathB

\* a track with both numbers set has the key of another such track
Collides(t, others) ==
  /\ HasBothNumbers(t)
  /\ \E o \in others : HasBothNumbers(o) /\ o.id # t.id /\ comboKey(o) = comboKey(t)

\* C4: new tracks are committed without a decision at the gate only if none
\* of them, having both numbers set, has the key of a track already in the
\* list or of another new track of the batch.
C4_GateReportsCollisions ==
  [][\A p \in Batches :
       (/\ batch[p].pc \in {"process_audio_files", "save_album_art_to_cache"}
        /\ batch'[p].pc = "idle"
        /\ Len(tracks') > Len(tracks))
       => \A k \in (Len(tracks) + 1)..Len(tracks') :
            ~Collides(tracks'[k], Range(tracks'))]_vars

\* C5: at the gate an abort leaves the track list as it is and a commit
\* appends every new track of the batch, the colliding ones included.
C5_AbortOrCommitAll ==
  [][\A p \in Batches, proceed \in BOOLEAN :
       ConfirmDuplicates(p, proceed) =>
         /\ tracks' = IF proceed THEN tracks \o batch[p].newTracks ELSE tracks
         /\ batch'[p].pc = "idle"]_vars

\* C5 witness: one batch of two tracks with the same key was committed
C5_Witness ==
  /\ submissions = 1
  /\ Active = {}
  /\ Len(tracks) = 2
  /\ comboKey(tracks[1]) = comboKey(tracks[2])

\* a step of an extraction batch: no submission and no user edit
BatchStep == submissions' = submissions /\ edits' = edits

\* C6: an album title, album artist or release date that is set is not
\* replaced by a step of an extraction batch.
C6_SetAlbumFieldsAreKept ==
  [][BatchStep =>
       /\ albumData.albumTitle # <<>> => albumData'.albumTitle = albumData.albumTitle
       /\ albumData.albumArtist # <<>> => albumData'.albumArtist = albumData.albumArtist
       /\ albumData.releaseDate \notin {<<>>, DefaultDate} =>
            albumData'.releaseDate = albumData.releaseDate]_vars

\* C7: the external artwork path and the cached embedded artwork path are
\* never both set.
C7_OneArtworkProvenance ==
  ~(albumData.albumArtworkPath # NoPath /\ albumData.albumArtworkCachePath # NoPath)

\* every path is the filePath of a track of the list
AllLoaded(paths) ==
  \A k \in 1..Len(paths) : \E j \in 1..Len(tracks) : tracks[j].filePath = paths[k]

\* C8: a submission of paths that are all loaded starts no batch, invokes no
\* command, delivers no progress event, leaves tracks and album data as they
\* are and ends with isProcessing false.
C8_AllLoadedIsNoOp ==
  [][\A paths \in PathLists :
       (AllLoaded(paths) /\ (PickAudioFiles(paths) \/ DragDrop(paths, <<>>))) =>
         /\ UNCHANGED <<tracks, albumData, batch, extraction, processingProgress,
                        completedCount>>
         /\ isProcessing' = FALSE
         /\ duplicateFilesDialog']_vars

\* C8 witness: loaded paths were submitted again
C8_Witness ==
  /\ duplicateFilesDialog
  /\ tracks # <<>>
  /\ Active = {}
  /\ ~isProcessing

\* C9: when check_ffmpeg reports the tool absent the batch invokes no extract
\* command and delivers no progress event, leaves tracks and album data as
\* they are, and ends with isProcessing false.
C9_ToolAbsentAborts ==
  [][\A p \in Batches :
       /\ (batch[p].pc = "check_ffmpeg" /\ batch'[p].pc = "ffmpeg_missing") =>
            /\ UNCHANGED <<tracks, albumData>>
            /\ extraction'[p] = <<>>
            /\ processingProgress' = NoProgress
            /\ completedCount' = 0
       /\ (batch[p].pc = "ffmpeg_missing" /\ batch'[p] # batch[p]) =>
            /\ UNCHANGED <<tracks, albumData, extraction, completedCount>>
            /\ batch'[p].pc = "idle"
            /\ isProcessing' = FALSE
            /\ processingProgress' = NoProgress]_vars

\* C9 witness: the tool is reported absent to a batch that follows a loaded one
C9_Witness == \E p \in Batches : batch[p].pc = "ffmpeg_missing" /\ tracks # <<>>

CarriesMetadata(result) == result.error = <<>> /\ result.hasMetadata

\* the tracks of the results that carry metadata, in result order
ExpectedTracks(serial, results) ==
  LET carrying == SelectSeq(results, CarriesMetadata)
  IN [k \in 1..Len(carrying) |-> newTrack(generateTrackId(serial, k), carrying[k])]

\* the custom tags and the genre values of the results that carry metadata
ExpectedTags(results) ==
  UNION {Range(r.metadata.tags) \cup Range(genreParts(r.metadata.genre)) :
           r \in {q \in Range(results) : CarriesMetadata(q)}}

\* C10: when the result loop of a batch ends, the new tracks are those of
\* all results carrying metadata, whatever results carry an error, and the
\* tags and genre values of those results are among the collected tags.
C10_ErrorResultsAreIsolated ==
  [][\A p \in Batches :
       LET results == IF batch[p].pc = "process_audio_files"
                      THEN resultsOf(extraction[p]) ELSE batch[p].results
           expected == ExpectedTracks(batch[p].serial, results)
           looping  == batch[p].pc \in {"process_audio_files", "save_album_art_to_cache"}
       IN /\ (looping /\ batch'[p].pc = "idle") =>
               /\ tracks' = tracks \o expected
               /\ ExpectedTags(results) \subseteq Range(albumData'.tags)
          /\ (looping /\ batch'[p].pc = "confirm_duplicates") =>
               /\ batch'[p].newTracks = expected
               /\ ExpectedTags(results) \subseteq Range(batch'[p].allTags)]_vars

\* C10 witness: a batch of two files ended with one track and its tags: the
\* other file's result carried an error
C10_Witness ==
  /\ submissions = 1
  /\ Active = {}
  /\ completedCount = 2
  /\ Len(tracks) = 1
  /\ albumData.tags # <<>>

\* the custom tags and genre values of the results, in the order the result
\* loop meets them, repeats included
RECURSIVE Discovered(_)
Discovered(results) ==
  IF results = <<>> THEN <<>>
  ELSE (IF CarriesMetadata(Head(results))
        THEN Head(results).metadata.tags \o genreParts(Head(results).metadata.genre)
        ELSE <<>>) \o Discovered(Tail(results))

FirstIndex(items, x) ==
  CHOOSE i \in 1..Len(items) : items[i] = x /\ \A j \in 1..(i - 1) : items[j] # x

\* merged is existing followed by the items of discovered that existing
\* lacks, each once, in the order of their first discovery
IsOrderedUnion(merged, existing, discovered) ==
  LET added == SubSeq(merged, Len(existing) + 1, Len(merged)) IN
  /\ Len(merged) >= Len(existing)
  /\ SubSeq(merged, 1, Len(existing)) = existing
  /\ Range(added) = Range(discovered) \ Range(existing)
  /\ \A i, j \in 1..Len(added) :
       i < j => FirstIndex(discovered, added[i]) < FirstIndex(discovered, added[j])

\* C12: when a batch merges the tags it discovered into the album tags, the
\* tags already there keep their positions and every discovered tag that
\* was not there is appended once, in discovery order.
C12_TagMergeIsOrderedUnion ==
  [][\A p \in Batches :
       LET results == IF batch[p].pc = "process_audio_files"
                      THEN [k \in 1..Len(extraction[p]) |-> extraction[p][k].result]
                      ELSE batch[p].results
           merging == \/ batch[p].pc \in {"process_audio_files", "save_album_art_to_cache"}
                      \/ batch[p].pc = "confirm_duplicates" /\ tracks' # tracks
       IN (merging /\ batch'[p].pc = "idle") =>
            IsOrderedUnion(albumData'.tags, albumData.tags, Discovered(results))]_vars

\* C12 witness: the second batch discovered k, r and j while k, m and j were
\* album tags, and r alone was appended
C12_Witness ==
  /\ Active = {}
  /\ Len(tracks) = 2
  /\ tracks[2].filePath = PathA
  /\ albumData.tags = <<<<"k">>, <<"m">>, <<"j">>, <<"r">>>>

NoDuplicates(list) == \A i, j \in 1..Len(list) : i # j => list[i] # list[j]

\* the items of before that after keeps come in after in the order of before
KeepsOrder(before, after) ==
  \A i, j \in 1..Len(before) :
    (i < j /\ before[i] # before[j]) =>
      \A a, b \in 1..Len(after) :
        (after[a] = before[i] /\ after[b] = before[j]) => a < b

\* C13: whatever is done to the artists of a track (extraction, typing with
\* commas, Enter, paste, chip removal), its artist list holds no string
\* twice and the artists it keeps stay in the order of their insertion.
C13_ArtistsAreDuplicateFree ==
  [][\A k \in 1..Len(tracks') :
       /\ NoDuplicates(tracks'[k].artists)
       /\ \A j \in 1..Len(tracks) :
            tracks[j].id = tracks'[k].id =>
              KeepsOrder(tracks[j].artists, tracks'[k].artists)]_vars

\* C14: whatever is done to the album tags (merge of a batch, typing with
\* commas, Enter, tag removal, clear-all), the tag list holds no string
\* twice and the tags it keeps stay in the order of their insertion.
C14_TagsAreDuplicateFree ==
  [][/\ NoDuplicates(albumData'.tags)
     /\ KeepsOrder(albumData.tags, albumData'.tags)]_vars

\* C14 witness: "k, w,w,y" was typed while k, r and j were tags: w was added
\* once, k was not added again, y stays in the input
C14_Witness ==
  /\ albumData.tags = <<<<"k">>, <<"r">>, <<"j">>, <<"w">>>>
  /\ albumData.currentTagInput = <<"y">>
  /\ edits > 0

Canonical(number) ==
  \/ number = <<>>
  \/ /\ \A i \in 1..Len(number) : IsDigit(number[i])
     /\ Len(number) > 1 => number[1] # "0"

\* C15: the stored disk number and track number of every track is empty or a
\* decimal string without leading zeros; no operation stores zero-padding.
C15_StoredNumbersAreCanonical ==
  \A k \in 1..Len(tracks) :
    Canonical(tracks[k].diskNumber) /\ Canonical(tracks[k].trackNumber)

\* text is the decimal rendering, without leading zeros, of the integer
\* that the digit string denotes
RendersInteger(text, digits) ==
  /\ Canonical(text)
  /\ text # <<>>
  /\ Len(text) <= Len(digits)
  /\ SubSeq(digits, Len(digits) - Len(text) + 1, Len(digits)) = text
  /\ \A i \in 1..(Len(digits) - Len(text)) : digits[i] = "0"

\* C16: normalizeNumberString drops every character that is not a digit; it
\* returns the empty text when no digit is left and otherwise the decimal
\* rendering without leading zeros of the integer the digits denote; applied
\* to its own result it returns that result.
C16_NormalizeRendersTheInteger ==
  LET digits == SelectSeq(call.input, IsDigit) IN
  /\ call.pc \in {"once", "twice"} =>
       IF digits = <<>> THEN call.once = <<>> ELSE RendersInteger(call.once, digits)
  /\ call.pc = "twice" => call.twice = call.once

\* C17: a retry round submits one job per failed file of the round before,
\* for that file's source path, and each such job is the job the round
\* before submitted for that path: same disk number, track number, title
\* and artists.
C17_RetryResubmitsTheFailedJobs ==
  [][(export.pc = "retry_dialog" /\ export'.pc = "listen") =>
       LET submitted == export.currentTracksToConvert
           retried   == export'.currentTracksToConvert
       IN /\ Len(retried) = Len(export.failed_files)
          /\ \A k \in 1..Len(retried) :
               /\ retried[k].source_path = export.failed_files[k].source_path
               /\ \E j \in 1..Len(submitted) : submitted[j] = retried[k]]_vars

\* C18: when the second round retried the failed files of the first and all
\* of them succeeded, the accumulated converted files hold no path twice
\* and one path for every job submitted at first.
C18_RetryConservation ==
  (export.pc = "done_dialog" /\ export.retryCount = 1) =>
    /\ NoDuplicates(export.allConvertedFiles)
    /\ Len(export.allConvertedFiles) = Len(export.tracks)

\* C19: under Rename, two jobs of one call with the same derived file name
\* end, in whatever order their workers ran, with two different output
\* paths, so that neither output replaces the other.
C19_RenameKeepsOutputsApart ==
  export.convertOutputSettings.overwrite_mode = "rename" =>
    \A k, j \in 1..Len(conversion) :
      ( /\ k # j
        /\ conversion[k].done /\ conversion[k].ok
        /\ conversion[j].done /\ conversion[j].ok
        /\ OutputPath(export.convertOutputSettings, export.currentTracksToConvert[k])
             = OutputPath(export.convertOutputSettings, export.currentTracksToConvert[j]) )
      => conversion[k].output # conversion[j].output

\* C20: an export asked for while no output folder is set is refused before
\* anything is scheduled: the run only shows the validation dialog and ends
\* with it; convert_audio_files is not invoked, no convert-progress listener
\* is registered, and isProcessing, the tracks and the album data stay as
\* they were.
C20_ExportWithoutFolderIsRejected ==
  [][LET untouched == /\ conversion' = conversion
                      /\ listeners' = listeners
                      /\ outputFiles' = outputFiles
                      /\ isProcessing' = isProcessing
                      /\ tracks' = tracks
                      /\ albumData' = albumData
     IN /\ (export.pc = "idle" /\ export'.pc # "idle" /\ exportSettings.outputPath = <<>>) =>
             (export'.pc = "validation_dialog" /\ untouched)
        /\ (export.pc = "validation_dialog" /\ export' # export) =>
             (export' = IdleExport /\ untouched)]_vars

\* C20 witness: the export of loaded tracks was asked for with no output
\* folder and stands at the validation dialog, nothing scheduled
C20_Witness ==
  /\ export.pc = "validation_dialog"
  /\ exportSettings.outputPath = <<>>
  /\ tracks # <<>>
  /\ conversion = <<>>
  /\ listeners = 0
  /\ ~isProcessing

ArtworkOf(album) ==
  <<album.albumArtwork, album.albumArtworkPath, album.albumArtworkCachePath>>

\* C21: a drop or folder pick with both image and audio files makes the
\* best image the artwork, with no cached reference, and its batch never
\* invokes save_album_art_to_cache and never touches the artwork, whatever
\* artwork bytes the results carry.
C21_ExternalImageSkipsEmbedded ==
  [][\A p \in Batches :
       /\ batch'[p].hasExternalImageCandidate => batch'[p].pc # "save_album_art_to_cache"
       /\ (batch[p].pc = "idle" /\ batch'[p].pc # "idle"
             /\ batch'[p].hasExternalImageCandidate) =>
            /\ albumData'.albumArtworkPath \in ImagePaths
            /\ albumData'.albumArtwork = convertFileSrc(albumData'.albumArtworkPath)
            /\ albumData'.albumArtworkCachePath = NoPath
       /\ (batch[p].pc # "idle" /\ batch[p].hasExternalImageCandidate
             /\ batch'[p] # batch[p]) =>
            ArtworkOf(albumData') = ArtworkOf(albumData)]_vars

\* C21 witness: the file with embedded artwork was dropped together with an
\* image and is loaded; the artwork is that image, nothing is cached
C21_Witness ==
  /\ submissions = 1
  /\ edits = 0
  /\ Active = {}
  /\ Len(tracks) = 1
  /\ tracks[1].filePath = PathA
  /\ albumData.albumArtworkPath = ImageX
  /\ albumData.albumArtwork = convertFileSrc(ImageX)
  /\ albumData.albumArtworkCachePath = NoPath


\* the part of a path after its last separator
FileName(path) == SubSeq(path, LastIndexOf(path, "/") + 2, Len(path))

\* the positions of a list of paths whose file name contains a word, in any case
NamedLike(paths, word) ==
  {k \in 1..Len(paths) : Contains(toLowerCase(FileName(paths[k])), word)}

Lowest(positions) == CHOOSE k \in positions : \A j \in positions : k <= j

\* C22: among several external images the artwork is the first, in input
\* order, whose file name contains "cover" in any case; if there is none, the
\* first whose file name contains "album"; if there is none, the first image.
C22_BestImageByName ==
  call.pc \in {"drag-drop", "processSelectedDirectories"} =>
    LET paths  == call.input
        covers == NamedLike(paths, <<"c", "o", "v", "e", "r">>)
        albums == NamedLike(paths, <<"a", "l", "b", "u", "m">>)
    IN albumData.albumArtworkPath =
         IF covers # {} THEN paths[Lowest(covers)]
         ELSE IF albums # {} THEN paths[Lowest(albums)]
         ELSE paths[1]

\* C22 witness: a plain image, an "album" image and a "Cover" image were
\* dropped in this order and the last one became the artwork
C22_Witness ==
  /\ call.pc = "drag-drop"
  /\ call.input = <<ImageX, ImageAlbum, ImageCover>>
  /\ albumData.albumArtworkPath = ImageCover


\* a step that is none of the user's edits keeps every track, in place
TracksKept == Len(tracks') >= Len(tracks) /\ SubSeq(tracks', 1, Len(tracks)) = tracks

\* a step leaves no album field empty that held something, and drops no tag
AlbumFieldsKept ==
  /\ \A field \in DOMAIN albumData \ {"tags"} :
       albumData[field] # ClearedAlbumData[field] => albumData'[field] # ClearedAlbumData[field]
  /\ Len(albumData'.tags) >= Len(albumData.tags)
  /\ SubSeq(albumData'.tags, 1, Len(albumData.tags)) = albumData.tags

\* C23 as stated: the track list is left empty only by the reset, which also
\* resets the album aggregate, and no step of a batch removes a track or
\* clears an album field.
C23_OnlyResetEmpties ==
  [][/\ (tracks # <<>> /\ tracks' = <<>>) =>
          (edits' = edits + 1 /\ albumData' = ClearedAlbumData)
     /\ edits' = edits => (TracksKept /\ AlbumFieldsKept)]_vars

\* C23: no step of an extraction batch or of a conversion, failing or not,
\* removes a track or clears an album field; the track list is left empty
\* only by an edit the user confirmed, the reset or the deletion of a track,
\* and the album aggregate is reset only together with the track list.
C23_OnlyUserEditsRemove ==
  [][/\ edits' = edits => (TracksKept /\ AlbumFieldsKept)
     /\ (tracks # <<>> /\ tracks' = <<>>) =>
          /\ edits' = edits + 1
          /\ call.pc = "handleTrackDelete" \/ albumData' = ClearedAlbumData
     /\ ~AlbumFieldsKept => (tracks' = <<>> /\ albumData' = ClearedAlbumData)]_vars

\* C23 witness: the convert command failed and the loaded track and the
\* album title are still in place
C23_Witness ==
  /\ export.pc = "error_dialog"
  /\ Len(tracks) = 1
  /\ albumData.albumTitle # <<>>


\* the largest current among the completed and error events of a list, or 0
MaxCurrent(events) ==
  LET counted == {events[k].current : k \in {j \in 1..Len(events) :
                                               events[j].status \in {"completed", "error"}}}
  IN IF counted = {} THEN 0 ELSE CHOOSE m \in counted : \A n \in counted : n <= m

\* C24: whatever the order in which the progress events of a batch arrive,
\* after each of them the completed count is the largest current among the
\* completed and error events received since the batch started (0 when there
\* is none); it never decreases and a processing event leaves it as it is.
C24_CompletedCountIsTheMaximum ==
  [][/\ completedCount' = MaxCurrent(call'.once)
     /\ completedCount' >= completedCount
     /\ call'.once[Len(call'.once)].status = "processing" => completedCount' = completedCount]_vars

\* C24 witness: the events of items 3 and 1 arrived in this order, followed
\* by a processing event of item 2, and the count is 3
C24_Witness ==
  /\ Len(call.once) = 3
  /\ call.once[1].current = 3 /\ call.once[1].status = "completed"
  /\ call.once[2].current = 1 /\ call.once[2].status = "error"
  /\ call.once[3].current = 2 /\ call.once[3].status = "processing"
  /\ completedCount = 3


\* C25: when save_album_art_to_cache fails the batch goes on: the loop
\* continues to the commit or to the duplicate dialog, the artwork is the
\* data URL of the embedded bytes, the album fields of the result are
\* applied, and no cached path is set afterwards.
C25_CacheFailureFallsBackToInline ==
  [][\A p \in Batches :
       SaveAlbumArtReturn(p, FALSE) =>
         LET metadata == batch[p].results[batch[p].i].metadata
         IN /\ batch'[p].pc \in {"idle", "confirm_duplicates"}
            /\ albumData'.albumArtwork = DataUrl(metadata.album_art)
            /\ albumData'.albumTitle = OrElse(metadata.album, albumData.albumTitle)
            /\ albumData'.albumArtworkCachePath = NoPath]_vars


\* C26: a track added from a result whose metadata has no disk number, or no
\* track number, holds the empty text in that number.
C26_UnsetNumbersStayEmpty ==
  [][\A k \in (Len(tracks) + 1)..Len(tracks') :
       LET metadata == FileMetadata(tracks'[k].filePath)
       IN /\ metadata.disk_number = <<>> => tracks'[k].diskNumber = <<>>
          /\ metadata.track_number = <<>> => tracks'[k].trackNumber = <<>>]_vars


\* C27: provided the backend commands and the dialogs return, a batch that
\* was started reaches idle again with isProcessing false and the extraction
\* progress cleared, whichever way it ends; and a batch in flight is moved
\* only by the returns of its own commands and dialogs, which end it only
\* from the FFmpeg warning, the error dialog, the duplicate dialog or the
\* result loop.
C27_BatchesFinish ==
  /\ \A p \in Batches :
       (batch[p].pc # "idle") ~>
         (batch[p].pc = "idle" /\ ~isProcessing /\ processingProgress = NoProgress)
  /\ [][\A p \in Batches :
          /\ (batch[p].pc # "idle" /\ batch'[p] # batch[p]) => Extract
          /\ (batch[p].pc # "idle" /\ batch'[p].pc = "idle") =>
               /\ batch[p].pc \in {"ffmpeg_missing", "error_dialog", "confirm_duplicates",
                                   "process_audio_files", "save_album_art_to_cache"}
               /\ ~isProcessing' /\ processingProgress' = NoProgress]_vars

\* C27 witness: two batches were started and both are over, the second one
\* without adding a track
C27_Witness ==
  /\ submissions = 2 /\ edits = 0
  /\ Active = {}
  /\ \A p \in Batches : batch[p].pc = "idle"
  /\ ~isProcessing /\ processingProgress = NoProgress
  /\ Len(tracks) = 1


\* C28: a conversion round is started by the user's export or by an accepted
\* retry on a round that returned failed files, and the convert command is
\* invoked only at the start of a round; an extraction batch is started only
\* by a submission of the user and invokes process_audio_files once, when
\* check_ffmpeg has returned, on the files of that submission.
C28_RetryOnlyForConversion ==
  [][/\ (export'.pc = "listen" /\ export.pc # "listen") =>
          \/ export.pc = "idle" /\ export'.retryCount = 0
          \/ /\ export.pc = "retry_dialog" /\ export.failed_files # <<>>
             /\ export'.retryCount = export.retryCount + 1
             /\ Len(export'.currentTracksToConvert) = Len(export.failed_files)
     /\ export'.retryCount # export.retryCount =>
          (export.pc = "retry_dialog" \/ export'.retryCount = 0)
     /\ (conversion = <<>> /\ conversion' # <<>>) => export.pc = "listen"
     /\ \A p \in Batches :
          /\ (batch'[p].pc = "check_ffmpeg" /\ batch[p].pc # "check_ffmpeg") =>
               (batch[p].pc = "idle" /\ submissions' = submissions + 1)
          /\ (extraction[p] = <<>> /\ extraction'[p] # <<>>) =>
               /\ batch[p].pc = "check_ffmpeg"
               /\ Len(extraction'[p]) = Len(batch[p].newFilePaths)
          /\ (batch'[p].pc = "process_audio_files" /\ batch[p].pc # "process_audio_files") =>
               batch[p].pc = "check_ffmpeg"]_vars

\* C28 witness: the second round of an export is converting the one file
\* that failed in the first, after one submission
C28_Witness ==
  /\ export.pc = "convert_audio_files"
  /\ export.retryCount = 1
  /\ Len(export.currentTracksToConvert) = 1
  /\ Len(tracks) = 2
  /\ submissions = 1


\* the bitrate table of the quality tiers
Bitrate(quality) ==
  CASE quality = "highest" -> <<"3", "2", "0">>
    [] quality = "high"    -> <<"2", "5", "6">>
    [] quality = "medium"  -> <<"1", "9", "2">>
    [] quality = "low"     -> <<"1", "2", "8">>

\* C29: the request of an export carries, for MP3 and for M4A, the bitrate
\* of the table for the selected tier (highest 320, high 256, medium 192,
\* low 128), and a change of the format sets the tier to high.
C29_TierResolvesToTableBitrate ==
  [][/\ (export.pc = "idle" /\ export'.pc = "listen") =>
          /\ export'.convertOutputSettings.format = exportSettings.format
          /\ export'.convertOutputSettings.quality = Bitrate(exportSettings.quality)
     /\ exportSettings'.format # exportSettings.format => exportSettings'.quality = "high"]_vars

\* C29 witness: an M4A export of the lowest tier was requested at 128
C29_Witness ==
  /\ export.pc = "convert_audio_files"
  /\ export.convertOutputSettings.format = "M4A"
  /\ export.convertOutputSettings.quality = <<"1", "2", "8">>
  /\ exportSettings.quality = "low"


\* the number a disk or track number field stands for, unset counting as 0
NumberValue(text) ==
  IF text = <<>> THEN 0 ELSE CHOOSE n \in 0..99 : DecimalText(n) = StripLeadingZeros(text)

\* the position of a track of the sorted list in the list before the sort
PositionBefore(t) == CHOOSE k \in 1..Len(call.input) : call.input[k] = t

\* C30: after the sort the track list holds exactly the tracks of the list
\* before it, unchanged, in ascending order of disk number and, within one
\* disk number, of track number, an unset number counting as 0; tracks with
\* the same two numbers keep their order.
C30_SortIsStableOrderedPermutation ==
  call.pc = "handleSort" =>
    /\ Len(tracks) = Len(call.input)
    /\ \A k \in 1..Len(call.input) : \E j \in 1..Len(tracks) : tracks[j] = call.input[k]
    /\ \A i \in 1..Len(tracks) : \A j \in (i + 1)..Len(tracks) :
         LET diskI == NumberValue(tracks[i].diskNumber)
             diskJ == NumberValue(tracks[j].diskNumber)
             trackI == NumberValue(tracks[i].trackNumber)
             trackJ == NumberValue(tracks[j].trackNumber)
         IN /\ diskI <= diskJ
            /\ diskI = diskJ => trackI <= trackJ
            /\ (diskI = diskJ /\ trackI = trackJ) =>
                 PositionBefore(tracks[i]) < PositionBefore(tracks[j])

\* C30 witness: a track of disk 02, one of disk 1 with no track number and
\* one of no disk with track number 10 were sorted into the reverse order
C30_Witness ==
  /\ call.pc = "handleSort"
  /\ Len(tracks) = 3
  /\ tracks[1].id = 3 /\ tracks[1].diskNumber = <<>> /\ tracks[1].trackNumber = <<"1", "0">>
  /\ tracks[2].id = 2 /\ tracks[2].diskNumber = <<"1">> /\ tracks[2].trackNumber = <<>>
  /\ tracks[3].id = 1 /\ tracks[3].diskNumber = <<"0", "2">>


\* C31: an export starts its first conversion round with a retry count of 0,
\* every further round adds one to the count, the convert command is invoked
\* once per round and only while the count is at most maxRetries, which
\* makes at most maxRetries + 1 invocations; and provided the command and
\* the dialogs return, the export ends with isProcessing false and the
\* conversion progress cleared.
C31_ExportRoundsAreBounded ==
  /\ [][/\ (export.pc # "listen" /\ export'.pc = "listen") =>
             export'.retryCount = IF export.pc = "idle" THEN 0 ELSE export.retryCount + 1
        /\ (export.pc # "convert_audio_files" /\ export'.pc = "convert_audio_files") =>
             (export.pc = "listen" /\ export.retryCount <= maxRetries)
        /\ (export.pc # "idle" /\ export'.pc # "listen") =>
             export'.retryCount \in {0, export.retryCount, maxRetries + 1}]_vars
  /\ (export.pc # "idle") ~>
       (export.pc = "idle" /\ ~isProcessing /\ convertProgress = NoProgress)

\* C31 witness: the fourth round of an export failed again, the retry was
\* accepted once more and the limit dialog is shown instead of a fifth round
C31_Witness ==
  /\ export.pc = "limit_dialog"
  /\ export.retryCount = maxRetries + 1
  /\ ~isProcessing /\ convertProgress = NoProgress


\* C32: a submission hands to its batch exactly the submitted paths that no
\* track of the list has as its filePath, in submitted order; and no two
\* tracks of the list ever have the same filePath.
C32_PathsAreLoadedOnce ==
  [][/\ \A p \in Batches : \A paths \in PathLists :
          (batch[p].pc = "idle" /\ batch'[p].pc = "check_ffmpeg"
             /\ (PickAudioFiles(paths) \/ DragDrop(paths, <<>>))) =>
            batch'[p].newFilePaths =
              SelectSeq(paths, LAMBDA path : \A k \in 1..Len(tracks) : tracks[k].filePath # path)
     /\ \A i \in 1..Len(tracks') : \A j \in (i + 1)..Len(tracks') :
          tracks'[i].filePath # tracks'[j].filePath]_vars


\* C33: isProcessing is true whenever process_audio_files or
\* convert_audio_files has been invoked and has not returned.
C33_ProcessingWhileCommandRuns ==
  ((\E p \in Batches : batch[p].pc = "process_audio_files")
     \/ export.pc = "convert_audio_files") => isProcessing


\* C34: a confirmed track deletion removes exactly the track of the given id
\* from the track list of the moment of the confirmation, tracks committed by
\* a batch since the request included; a declined one leaves the list as it is.
C34_DeletionRemovesOnlyItsTrack ==
  [][\A userConfirmed \in BOOLEAN :
       TrackDeleteAnswer(userConfirmed) =>
         tracks' = IF userConfirmed
                   THEN SelectSeq(tracks, LAMBDA t : t.id # call.input)
                   ELSE tracks]_vars


\* C35: a batch declined at the duplicate gate leaves the album aggregate as
\* it was before the batch started. Where batches are the only writers and no
\* track was ever committed, every batch so far failed or was declined, so
\* the declined batch ends with the album aggregate of the construction.
C35_DeclinedBatchKeepsAlbum ==
  [][\A p \in Batches :
       (ConfirmDuplicates(p, FALSE) /\ tracks = <<>> /\ Active = {p}) =>
         albumData' = InitialAlbumData]_vars


\* the ids of the new tracks the gate has to report, in order: both numbers
\* set and the key of an existing track or of an earlier new track
ConflictIds(newTracks, existingTracks) ==
  LET SameKey(t, o) == HasBothNumbers(o) /\ comboKey(o) = comboKey(t)
      Conflicts(k) ==
        /\ HasBothNumbers(newTracks[k])
        /\ \/ \E j \in 1..Len(existingTracks) : SameKey(newTracks[k], existingTracks[j])
           \/ \E j \in 1..(k - 1) : SameKey(newTracks[k], newTracks[j])
      found == SelectSeq([k \in 1..Len(newTracks) |-> k], Conflicts)
  IN [n \in 1..Len(found) |-> newTracks[found[n]].id]

\* C36: when the results of a batch have been read, the gate has one entry
\* for each new track, with both numbers set, whose key is the key of a track
\* in the list or of an earlier new track, and no other entry; the decision
\* is asked exactly when there is an entry, otherwise the batch ends.
C36_GateEntriesAreTheConflicts ==
  [][\A p \in Batches :
       (/\ batch[p].pc \in {"process_audio_files", "save_album_art_to_cache"}
        /\ batch'[p].pc \in {"confirm_duplicates", "idle"})
       => LET newTracks == IF batch'[p].pc = "idle"
                           THEN SubSeq(tracks', Len(tracks) + 1, Len(tracks'))
                           ELSE batch'[p].newTracks
              entries   == batch'[p].duplicateEntries
          IN /\ [n \in 1..Len(entries) |-> entries[n].id] = ConflictIds(newTracks, tracks)
             /\ (batch'[p].pc = "confirm_duplicates") <=> (entries # <<>>)]_vars


\* C37: the convert-progress listener of a conversion round is registered
\* exactly while the round's convert_audio_files call is running: every way
\* the call ends, result or rejection, detaches it, so at most one listener is
\* registered during an export and none outside the call or after the export.
C37_ListenerDetachedWithTheRound ==
  /\ [](listeners = IF export.pc = "convert_audio_files" THEN 1 ELSE 0)
  /\ [][(export.pc = "convert_audio_files" /\ export'.pc # "convert_audio_files") =>
          listeners' = listeners - 1]_vars

\* C37 witness: the second round of an export has returned with failures, and
\* no listener is registered
C37_Witness ==
  /\ export.pc = "retry_dialog"
  /\ export.retryCount = 1
  /\ listeners = 0


\* C38: convert_audio_files is never invoked with an empty job list: the
\* export dialog opens only on a non-empty track list, the first round
\* submits one job per track of a non-empty list, a retry round one job per
\* failed file of a non-empty failed list, and the command gets the jobs of
\* its round.
C38_JobListIsNeverEmpty ==
  [][/\ (~showExportDialog /\ showExportDialog') => tracks # <<>>
     /\ (export.pc = "idle" /\ export'.pc = "listen") =>
          /\ tracks # <<>>
          /\ Len(export'.currentTracksToConvert) = Len(tracks)
     /\ (export.pc = "retry_dialog" /\ export'.pc = "listen") =>
          /\ export.failed_files # <<>>
          /\ Len(export'.currentTracksToConvert) = Len(export.failed_files)
     /\ (export.pc = "listen" /\ export'.pc = "convert_audio_files") =>
          /\ conversion' # <<>>
          /\ Len(conversion') = Len(export.currentTracksToConvert)]_vars

====
